---- MODULE Spec2Model ----
(***************************************************************************)
(* The agent run loop of src/agents/index.ts (createAgent, with, run,      *)
(* mergeTools, withToolCallHints, maybeExecuteTool, parseToolCall,         *)
(* tryParseObject), the chat adapter of src/agents/openaiClient.ts and     *)
(* withTools of functional-agents-js/src/core/agent.ts.                    *)
(*                                                                         *)
(* Text is a sequence of lexemes.  The braces and the comma are lexemes of *)
(* their own, so indexOf('{'), lastIndexOf('}') and slice act on the model *)
(* as they act on the characters.  The other lexemes are:                  *)
(*   "H"  the member  "handoff":"Spanish"                                  *)
(*   "T"  the member  "tool":"calculator"                                  *)
(*   "U"  the member  "tool":"search"                                      *)
(*   "A"  the key     "args":   (a value must follow)                      *)
(*   "1"  a number literal                                                 *)
(*   "w"  a word of prose                                                  *)
(* JavaScript arrays are objects with identity: a variable holds a         *)
(* reference (an index into a heap), a spread allocates a new array.       *)
(***************************************************************************)
EXTENDS Integers, Sequences, FiniteSets, TLC

\* ------------------------------------------------------------------ bounds
MaxTextLen == 4
MaxPassesInput == 1
MaxToolList == 2
MaxWithCalls == 2
MaxChunks == 4
MaxBuilderCalls == 2
MaxTurnsInput == 2
MaxThreshold == 2
MaxResetTimeout == 2
MaxClock == 4
MaxBreakerCalls == 3

\* --------------------------------------------------------- program constants
DefaultMaxToolPasses == 3
DefaultMaxTurns == 10
RunnerDefaultMaxTurns == 10

\* ------------------------------------------------------------------ values
Alphabet == {"{", "}", ",", "H", "T", "U", "A", "1", "w"}

\* the JavaScript value undefined, where a string (a lexeme sequence) may also stand
Undefined == <<"undefined">>

Max(a, b) == IF a > b THEN a ELSE b

\* String.prototype.indexOf / lastIndexOf for a one-lexeme needle, 0-based, -1 when absent
IndexOf(text, c) ==
  LET hits == {k \in 1..Len(text) : text[k] = c}
  IN IF hits = {} THEN -1 ELSE (CHOOSE k \in hits : \A m \in hits : k <= m) - 1

LastIndexOf(text, c) ==
  LET hits == {k \in 1..Len(text) : text[k] = c}
  IN IF hits = {} THEN -1 ELSE (CHOOSE k \in hits : \A m \in hits : k >= m) - 1

\* String.prototype.slice(from, to) for 0 <= from <= to <= length
Slice(text, from, to) == SubSeq(text, from + 1, to)

\* ------------------------------------------------------------------ JSON.parse
\* A parsed value: kind "object" with the set of keys it has and their values,
\* or kind "number", or kind "undefined" (no value).
JSValue(kind, has, handoff, tool, args) ==
  [kind |-> kind, has |-> has, handoff |-> handoff, tool |-> tool, args |-> args]

EmptyObject == JSValue("object", {}, "", "", <<>>)
NumberValue == JSValue("number", {}, "", "", <<>>)
UndefinedValue == JSValue("undefined", {}, "", "", <<>>)

ParseFail == [ok |-> FALSE, val |-> UndefinedValue, next |-> 0]

\* JSON.parse as one left-to-right scan with a nesting depth d.  The grammar is
\*   value  := "1" | "{" "}" | "{" member ("," member)* "}"
\*   member := "H" | "T" | "U" | "A" value
\* mode says what the scan expects at position p: a "value", a "member", a separator
\* ("sep": "," or "}"), or that a value just ended before p ("done").  acc is the
\* outermost value; only members at depth 1 are its keys, a repeated key keeps its
\* last value, and argStart is where the value of its "args" key began.
RECURSIVE Scan(_, _, _, _, _, _)
Scan(s, p, d, mode, acc, argStart) ==
  IF mode = "done" THEN
    IF d = 0 THEN [ok |-> TRUE, val |-> acc, next |-> p]
    ELSE IF d = 1
      THEN Scan(s, p, d, "sep",
                [acc EXCEPT !.has = @ \cup {"args"}, !.args = SubSeq(s, argStart, p - 1)], 0)
      ELSE Scan(s, p, d, "sep", acc, argStart)
  ELSE IF p > Len(s) THEN ParseFail
  ELSE IF mode = "value" THEN
    IF s[p] = "1"
      THEN Scan(s, p + 1, d, "done", IF d = 0 THEN NumberValue ELSE acc, argStart)
    ELSE IF s[p] = "{" THEN
      IF p + 1 <= Len(s) /\ s[p + 1] = "}"
        THEN Scan(s, p + 2, d, "done", IF d = 0 THEN EmptyObject ELSE acc, argStart)
        ELSE Scan(s, p + 1, d + 1, "member", IF d = 0 THEN EmptyObject ELSE acc, argStart)
    ELSE ParseFail
  ELSE IF mode = "member" THEN
    IF s[p] = "H" THEN
      Scan(s, p + 1, d, "sep",
           IF d = 1 THEN [acc EXCEPT !.has = @ \cup {"handoff"}, !.handoff = "Spanish"] ELSE acc,
           argStart)
    ELSE IF s[p] = "T" THEN
      Scan(s, p + 1, d, "sep",
           IF d = 1 THEN [acc EXCEPT !.has = @ \cup {"tool"}, !.tool = "calculator"] ELSE acc,
           argStart)
    ELSE IF s[p] = "U" THEN
      Scan(s, p + 1, d, "sep",
           IF d = 1 THEN [acc EXCEPT !.has = @ \cup {"tool"}, !.tool = "search"] ELSE acc,
           argStart)
    ELSE IF s[p] = "A" THEN
      Scan(s, p + 1, d, "value", acc, IF d = 1 THEN p + 1 ELSE argStart)
    ELSE ParseFail
  ELSE
    IF s[p] = "," THEN Scan(s, p + 1, d, "member", acc, argStart)
    ELSE IF s[p] = "}" THEN Scan(s, p + 1, d - 1, "done", acc, argStart)
    ELSE ParseFail

ParseValue(s, p) == Scan(s, p, 0, "value", UndefinedValue, 0)

\* JSON.parse(text): ok = FALSE stands for the SyntaxError it throws
JSONParse(text) ==
  LET r == ParseValue(text, 1)
  IN IF r.ok /\ r.next = Len(text) + 1
       THEN [ok |-> TRUE, val |-> r.val]
       ELSE [ok |-> FALSE, val |-> UndefinedValue]

\* tryParseObject that repairs a text whose braces are left open by closing them
tryParseObjectRepair(text) ==
  LET strict == JSONParse(text)
  IN IF strict.ok THEN strict.val
     ELSE LET start == IndexOf(text, "{")
              end == LastIndexOf(text, "}")
              closed == IF end > start THEN Slice(text, start, end + 1)
                        ELSE Append(Slice(text, start, Len(text)), "}")
          IN IF start # -1
               THEN LET inner == JSONParse(closed)
                    IN IF inner.ok THEN inner.val ELSE UndefinedValue
               ELSE UndefinedValue

\* tryParseObject(text)
tryParseObject(text) ==
  LET strict == JSONParse(text)
  IN IF strict.ok THEN strict.val
     ELSE LET start == IndexOf(text, "{")
              end == LastIndexOf(text, "}")
          IN IF start # -1 /\ end # -1 /\ end > start
               THEN LET inner == JSONParse(Slice(text, start, end + 1))
                    IN IF inner.ok THEN inner.val ELSE UndefinedValue
               ELSE UndefinedValue

\* obj && typeof obj === 'object' && key in obj
HasKey(obj, key) == obj.kind = "object" /\ key \in obj.has

\* parseToolCall(content): the object when it has tool and args, else null (ok = FALSE)
parseToolCall(content) ==
  LET obj == tryParseObject(content)
  IN IF HasKey(obj, "tool") /\ HasKey(obj, "args")
       THEN [ok |-> TRUE, tool |-> obj.tool, args |-> obj.args]
       ELSE [ok |-> FALSE, tool |-> "", args |-> <<>>]

\* ------------------------------------------------------------------ state
VARIABLES
  agents,      \* the agents created so far: agents[n] is the baseConfig of agent n
  toolHeap,    \* the ToolDefinition[] arrays: a config's tools is an index, 0 = undefined
  inp,         \* the argument of the call modelled (of run; of chat in SpecStream)
  pc,          \* where the run is: the external call it awaits, or how it ended
  i,           \* the loop counter of run
  heap,        \* the Message[] arrays: a message list is an index into heap
  history,     \* run's history (an index into heap)
  lastContent, \* run's lastContent
  calls,       \* every external call issued so far, in order, with its arguments
  trace,       \* the events handed to onTrace, in order
  result,      \* what the run call settled to
  self,        \* the agent whose run method is executing: agents[self] is its baseConfig
  observer,    \* what the function configured as onTrace does with an event
  parked,      \* the run calls that are suspended at an await while another run executes
  stream,      \* openaiClient chat: the chunks the provider has yet to send
  full,        \* openaiClient chat: the accumulator of the streaming branch
  breaker,     \* createCircuitBreakerAgent: failureCount, lastFailureTime, isOpen of the closure
  clock        \* what Date.now() returns

vars == <<agents, toolHeap, inp, pc, i, heap, history, lastContent, calls, trace, result,
          self, observer, parked, stream, full, breaker, clock>>

\* ------------------------------------------------------------------ data
Absent == "<undefined>"
\* JavaScript truthiness of an optional string
Truthy(str) == str # Absent /\ str # ""

Message(role, content) == [role |-> role, content |-> content]

ToolDefinition(name, def) == [name |-> name, def |-> def]
Calculator == ToolDefinition("calculator", "a")
Search == ToolDefinition("search", "a")

AgentConfig(name, instructions, tools, inputGuard, outputGuard, onTrace, handoff) ==
  [name |-> name, instructions |-> instructions, tools |-> tools,
   inputGuard |-> inputGuard, outputGuard |-> outputGuard,
   onTrace |-> onTrace, handoff |-> handoff]

\* the baseConfig in the closure of the run that is executing
baseConfig == agents[self]

\* an onTrace function: it records the event; or it throws on events of one type; or
\* it pushes a message onto the list an llm:request event carries
Recorder == [does |-> "records", on |-> ""]
Thrower(type) == [does |-> "throws", on |-> type]
Pusher == [does |-> "pushes", on |-> "llm:request"]
NoObserver == [does |-> "none", on |-> ""]

\* baseConfig.tools as a list; Defined = FALSE for undefined
ToolsOf(config) ==
  IF config.tools = 0 THEN [defined |-> FALSE, list |-> <<>>]
  ELSE [defined |-> TRUE, list |-> toolHeap[config.tools]]

\* a value a tool's execute returns
StringResult(text) == [type |-> "string", text |-> text]
ObjectResult(json) == [type |-> "object", text |-> json]
UndefinedResult == [type |-> "undefined", text |-> <<>>]

\* typeof result === 'string' ? result : JSON.stringify(result)
Stringify(value) ==
  IF value.type = "string" THEN value.text
  ELSE IF value.type = "undefined" THEN Undefined
  ELSE value.text

\* one external call: the function called and the arguments it was given
\* (ref: the message list handed over, snap: what that list held at the call)
Call(st, fn, ref, text, name, obj) ==
  [fn |-> fn, ref |-> ref, text |-> text, name |-> name, obj |-> obj,
   ctx |-> inp.context, snap |-> IF ref = 0 THEN <<>> ELSE st.heap[ref],
   outcome |-> "pending", ret |-> <<>>]

TraceEvent(type, name, text, ref) == [type |-> type, name |-> name, text |-> text, ref |-> ref]

\* the closure variables of a circuit breaker; NewBreaker is what createCircuitBreakerAgent
\* sets them to
NewBreaker == [failureCount |-> 0, lastFailureTime |-> 0, isOpen |-> FALSE]

NoResult == [status |-> "pending", content |-> <<>>, structured |-> UndefinedValue, error |-> ""]

\* ------------------------------------------------------------------ run
\* The code of run between two external calls is a function of the run's state:
\* Cur is that state, Commit writes it back.
\* onTrace is the local that line 83 takes out of baseConfig.
Cur ==
  [pc |-> pc, i |-> i, heap |-> heap, history |-> history, lastContent |-> lastContent,
   calls |-> calls, trace |-> trace, result |-> result,
   onTrace |-> IF baseConfig.onTrace THEN observer ELSE NoObserver]

Commit(st) ==
  /\ pc' = st.pc
  /\ i' = st.i
  /\ heap' = st.heap
  /\ history' = st.history
  /\ lastContent' = st.lastContent
  /\ calls' = st.calls
  /\ trace' = st.trace
  /\ result' = st.result

\* the pending call has returned ret / has thrown
Settled(ret) ==
  [Cur EXCEPT !.calls[Len(calls)] = [@ EXCEPT !.outcome = "returned", !.ret = ret]]

Thrown ==
  [Cur EXCEPT !.calls[Len(calls)] = [@ EXCEPT !.outcome = "threw"]]

\* throw: the promise run returned rejects
Reject(st, error) ==
  [st EXCEPT !.pc = "rejected", !.result = [NoResult EXCEPT !.status = "rejected", !.error = error]]

\* a throw ends the execution of run: no statement after it executes
Live(st) == st.pc # "rejected"

\* onTrace?.(event): a plain synchronous call, so what onTrace throws is thrown by run,
\* and the list an llm:request event carries is the very list handed to the provider
Emit(st, event) ==
  IF ~Live(st) \/ st.onTrace.does = "none" THEN st
  ELSE IF st.onTrace.does = "throws" /\ st.onTrace.on = event.type THEN Reject(st, "onTrace")
  ELSE IF st.onTrace.does = "pushes" /\ st.onTrace.on = event.type /\ event.ref # 0
    THEN [st EXCEPT !.trace = Append(@, event),
                    !.heap[event.ref] = Append(@, Message("user", <<"pushed">>))]
  ELSE [st EXCEPT !.trace = Append(@, event)]

\* issue an external call and wait for it
Await(st, fn, ref, text, name, obj) ==
  IF ~Live(st) THEN st
  ELSE [st EXCEPT !.pc = fn, !.calls = Append(@, Call(st, fn, ref, text, name, obj))]

\* onTrace agent:stop; return { content, structured }
Return(st, content, structured) ==
  LET s1 == Emit(st, TraceEvent("agent:stop", baseConfig.name, <<>>, 0))
  IN IF ~Live(s1) THEN s1
     ELSE [s1 EXCEPT !.pc = "returned",
                     !.result = [status |-> "returned", content |-> content,
                                 structured |-> structured, error |-> ""]]

\* AfterOutputGuard that extracts the object from the provider's text
AfterOutputGuardParsesRaw(st, content) ==
  IF inp.expect
    THEN Await(st, "expect", 0, content, "", tryParseObject(st.lastContent))
    ELSE Return(st, content, UndefinedValue)

\* lines 133-139: structured = expect.parse(tryParseObject(content)) when expect is given
AfterOutputGuard(st, content) ==
  IF inp.expect
    THEN Await(st, "expect", 0, content, "", tryParseObject(content))
    ELSE Return(st, content, UndefinedValue)

\* lines 130-131: content = outputGuard ? await outputGuard(lastContent) : lastContent
Finalize(st) ==
  IF baseConfig.outputGuard
    THEN Await(st, "outputGuard", 0, st.lastContent, "", UndefinedValue)
    ELSE AfterOutputGuard(st, st.lastContent)

\* the text of the synthetic tool-hint message: the fixed sentence, then one line per tool
HintText(tools) == <<"You may call tools">> \o [k \in 1..Len(tools) |-> tools[k].name]

\* withToolCallHints that puts the hint after the messages
withToolCallHintsAppended(st, tools) ==
  IF ~tools.defined \/ Len(tools.list) = 0
    THEN [st |-> st, hinted |-> st.history]
    ELSE LET list == st.heap[st.history] \o <<Message("system", HintText(tools.list))>>
             s1 == [st EXCEPT !.heap = Append(@, list)]
         IN [st |-> s1, hinted |-> Len(s1.heap)]

\* withToolCallHints that does messages.unshift(hint) and returns messages itself
withToolCallHintsInPlace(st, tools) ==
  IF ~tools.defined \/ Len(tools.list) = 0
    THEN [st |-> st, hinted |-> st.history]
    ELSE LET list == <<Message("system", HintText(tools.list))>> \o st.heap[st.history]
         IN [st |-> [st EXCEPT !.heap[st.history] = list], hinted |-> st.history]

\* withToolCallHints(messages, tools): the list handed to the provider (st.heap may grow)
withToolCallHints(st, tools) ==
  IF ~tools.defined \/ Len(tools.list) = 0
    THEN [st |-> st, hinted |-> st.history]
    ELSE LET list == <<Message("system", HintText(tools.list))>> \o st.heap[st.history]
             s1 == [st EXCEPT !.heap = Append(@, list)]
         IN [st |-> s1, hinted |-> Len(s1.heap)]

\* Math.max(1, maxToolPasses + 1) with the default maxToolPasses = 3
Passes == IF inp.maxToolPasses.given THEN inp.maxToolPasses.value ELSE DefaultMaxToolPasses
\* the loop test written i <= bound
LoopBoundInclusive == Max(1, Passes + 1) + 1

LoopBound == Max(1, Passes + 1)

\* Loop that throws when the iterations are used up
LoopExhaustedThrows(st) ==
  IF ~Live(st) THEN st
  ELSE IF st.i < LoopBound
    THEN LET h == withToolCallHints(st, ToolsOf(baseConfig))
             s1 == Emit(h.st, TraceEvent("llm:request", "gpt-4o-mini", <<>>, h.hinted))
         IN Await(s1, "chat", h.hinted, <<>>, "", UndefinedValue)
    ELSE Reject(st, "max turns exceeded")

\* lines 92-96: the loop test, then the body up to await client.chat
Loop(st) ==
  IF ~Live(st) THEN st
  ELSE IF st.i < LoopBound
    THEN LET h == withToolCallHints(st, ToolsOf(baseConfig))
             s1 == Emit(h.st, TraceEvent("llm:request", "gpt-4o-mini", <<>>, h.hinted))
         IN Await(s1, "chat", h.hinted, <<>>, "", UndefinedValue)
    ELSE Finalize(st)

\* Seed that puts the guarded messages before the system message
SeedGuardedFirst(st, guardedInput) ==
  LET systemMsg == IF Truthy(baseConfig.instructions)
                     THEN <<Message("system", <<baseConfig.instructions>>)>> ELSE <<>>
      s1 == [st EXCEPT !.heap = Append(@, st.heap[guardedInput] \o systemMsg)]
      s2 == [s1 EXCEPT !.history = Len(s1.heap), !.lastContent = <<>>, !.i = 0]
      s3 == Emit(s2, TraceEvent("agent:start", baseConfig.name, <<>>, 0))
  IN Loop(s3)

\* Seed that does guardedInput.unshift(...systemMsg) and keeps that array as history
SeedInPlace(st, guardedInput) ==
  LET systemMsg == IF Truthy(baseConfig.instructions)
                     THEN <<Message("system", <<baseConfig.instructions>>)>> ELSE <<>>
      s1 == [st EXCEPT !.heap[guardedInput] = systemMsg \o @]
      s2 == [s1 EXCEPT !.history = guardedInput, !.lastContent = <<>>, !.i = 0]
      s3 == Emit(s2, TraceEvent("agent:start", baseConfig.name, <<>>, 0))
  IN Loop(s3)

\* lines 86-91: history = [...systemMsg, ...guardedInput]; agent:start; i = 0
Seed(st, guardedInput) ==
  LET systemMsg == IF Truthy(baseConfig.instructions)
                     THEN <<Message("system", <<baseConfig.instructions>>)>> ELSE <<>>
      s1 == [st EXCEPT !.heap = Append(@, systemMsg \o st.heap[guardedInput])]
      s2 == [s1 EXCEPT !.history = Len(s1.heap), !.lastContent = <<>>, !.i = 0]
      s3 == Emit(s2, TraceEvent("agent:start", baseConfig.name, <<>>, 0))
  IN Loop(s3)

\* AfterTool that appends the tool message before the assistant message
AfterToolSwapped(st, toolResult) ==
  IF ~Live(st) THEN st
  ELSE IF toolResult # st.lastContent
    THEN LET list == st.heap[st.history]
                       \o <<Message("tool", toolResult), Message("assistant", st.lastContent)>>
             s1 == [st EXCEPT !.heap = Append(@, list)]
             s2 == [s1 EXCEPT !.history = Len(s1.heap), !.i = @ + 1]
         IN Loop(s2)
    ELSE Finalize(st)

\* lines 116-127: a tool ran iff toolResult !== lastContent
AfterTool(st, toolResult) ==
  IF ~Live(st) THEN st
  ELSE IF toolResult # st.lastContent
    THEN LET list == st.heap[st.history]
                       \o <<Message("assistant", st.lastContent), Message("tool", toolResult)>>
             s1 == [st EXCEPT !.heap = Append(@, list)]
             s2 == [s1 EXCEPT !.history = Len(s1.heap), !.i = @ + 1]
         IN Loop(s2)
    ELSE Finalize(st)

\* find that settles for the first tool when no name matches
FindOrFirst(list, name) ==
  LET hits == {k \in 1..Len(list) : list[k].name = name}
  IN IF hits = {} THEN (IF Len(list) > 0 THEN 1 ELSE 0)
     ELSE CHOOSE k \in hits : \A m \in hits : k <= m

\* tools.find(t => t.name === name): the index of the first match, 0 when there is none
Find(list, name) ==
  LET hits == {k \in 1..Len(list) : list[k].name = name}
  IN IF hits = {} THEN 0 ELSE CHOOSE k \in hits : \A m \in hits : k <= m

\* maybeExecuteTool that looks the tool up in a default list when no tools are configured
maybeExecuteToolFallback(content, tools) ==
  LET toolCall == parseToolCall(content)
      list == IF ~tools.defined \/ Len(tools.list) = 0 THEN <<Calculator, Search>> ELSE tools.list
      found == IF toolCall.ok THEN Find(list, toolCall.tool) ELSE 0
  IN IF ~toolCall.ok THEN [call |-> FALSE, tool |-> Calculator, args |-> <<>>]
     ELSE IF found = 0 THEN [call |-> FALSE, tool |-> Calculator, args |-> <<>>]
     ELSE [call |-> TRUE, tool |-> list[found], args |-> toolCall.args]

\* maybeExecuteTool up to await found.execute: either it returns content at once
\* (call = FALSE) or it awaits the tool found
maybeExecuteTool(content, tools) ==
  LET toolCall == parseToolCall(content)
      found == IF toolCall.ok THEN Find(tools.list, toolCall.tool) ELSE 0
  IN IF ~tools.defined \/ Len(tools.list) = 0 THEN [call |-> FALSE, tool |-> Calculator, args |-> <<>>]
     ELSE IF ~toolCall.ok THEN [call |-> FALSE, tool |-> Calculator, args |-> <<>>]
     ELSE IF found = 0 THEN [call |-> FALSE, tool |-> Calculator, args |-> <<>>]
     ELSE [call |-> TRUE, tool |-> tools.list[found], args |-> toolCall.args]

\* line 102: handoffObj && typeof handoffObj === 'object' && 'handoff' in handoffObj
IsHandoff(obj) == HasKey(obj, "handoff")

\* AfterChat that goes on to the tool dispatch when no handoff callback is configured
AfterChatHandoffFallsThrough(st, response) ==
  LET s1 == Emit([st EXCEPT !.lastContent = response],
                 TraceEvent("llm:response", "", response, 0))
      handoffObj == tryParseObject(response)
      s2 == Emit(s1, TraceEvent("handoff", handoffObj.handoff, <<>>, 0))
      m == maybeExecuteTool(response, ToolsOf(baseConfig))
      s3 == Emit(IF IsHandoff(handoffObj) THEN s2 ELSE s1,
                 TraceEvent("tool:start", m.tool.name, m.args, 0))
  IN IF IsHandoff(handoffObj) /\ baseConfig.handoff
       THEN Await(s2, "handoff", s2.history, <<>>, handoffObj.handoff, UndefinedValue)
       ELSE IF m.call
              THEN Await(s3, "execute", 0, m.args, m.tool.name, UndefinedValue)
              ELSE IF IsHandoff(handoffObj) THEN Finalize(s2) ELSE AfterTool(s1, response)

\* AfterChat that dispatches a tool call before it looks for a handoff
AfterChatToolFirst(st, response) ==
  LET s1 == Emit([st EXCEPT !.lastContent = response],
                 TraceEvent("llm:response", "", response, 0))
      handoffObj == tryParseObject(response)
      s2 == Emit(s1, TraceEvent("handoff", handoffObj.handoff, <<>>, 0))
      m == maybeExecuteTool(response, ToolsOf(baseConfig))
      s3 == Emit(s1, TraceEvent("tool:start", m.tool.name, m.args, 0))
  IN IF m.call
       THEN Await(s3, "execute", 0, m.args, m.tool.name, UndefinedValue)
       ELSE IF IsHandoff(handoffObj)
              THEN IF baseConfig.handoff
                     THEN Await(s2, "handoff", s2.history, <<>>, handoffObj.handoff, UndefinedValue)
                     ELSE Finalize(s2)
              ELSE AfterTool(s1, response)

\* lines 97-115: the body from the provider's response to the next external call
AfterChat(st, response) ==
  LET s1 == Emit([st EXCEPT !.lastContent = response],
                 TraceEvent("llm:response", "", response, 0))
      handoffObj == tryParseObject(response)
      s2 == Emit(s1, TraceEvent("handoff", handoffObj.handoff, <<>>, 0))
      m == maybeExecuteTool(response, ToolsOf(baseConfig))
      s3 == Emit(s1, TraceEvent("tool:start", m.tool.name, m.args, 0))
  IN IF IsHandoff(handoffObj)
       THEN IF baseConfig.handoff
              THEN Await(s2, "handoff", s2.history, <<>>, handoffObj.handoff, UndefinedValue)
              ELSE Finalize(s2)
       ELSE IF m.call
              THEN Await(s3, "execute", 0, m.args, m.tool.name, UndefinedValue)
              ELSE AfterTool(s1, response)

\* ------------------------------------------------------------------ environment
\* what the provider may answer
Prose == <<"w">>
CalculatorCall == <<"w", "{", "T", ",", "A", "{", "}", "}", "w">>
SearchCall == <<"{", "U", ",", "A", "1", "}">>
HandoffText == <<"{", "H", "}">>
HandoffAndCall == <<"{", "H", ",", "T", ",", "A", "1", "}">>
Unbalanced == <<"{", "T", ",", "A", "1">>
NumberText == <<"1">>
Responses == {Prose, CalculatorCall, SearchCall, HandoffText, HandoffAndCall, Unbalanced, NumberText}

\* what a tool's execute may return during a run: a string, the very text of the
\* response, or an object
ToolResults(name, content) ==
  IF name = "calculator" THEN {StringResult(<<"1">>), StringResult(content)}
  ELSE {ObjectResult(<<"{", "}">>)}

\* what the handoff callback may resolve to
HandoffResults ==
  {[content |-> <<"w">>, structured |-> UndefinedValue],
   [content |-> <<"{", "}">>, structured |-> EmptyObject]}

\* what outputGuard may resolve to
OutputGuardResults(text) == {text, <<"{", "}">>}

\* the caller's messages
InputMessages == <<Message("user", <<"w">>), Message("user", <<"1">>)>>

\* what inputGuard may resolve to: the list it was given, or a new list
InputGuardKinds == {"same", "slice", "empty"}
InputGuardResult(kind, list) ==
  IF kind = "slice" THEN SubSeq(list, Len(list), Len(list)) ELSE <<>>

PassesInputs ==
  {[given |-> FALSE, value |-> 0]} \cup {[given |-> TRUE, value |-> k] : k \in -1..MaxPassesInput}

Configs ==
  {AgentConfig("Router", ins, tl, ig, og, ot, ho) :
     ins \in {Absent, "", "Be concise."}, tl \in 0..3,
     ig \in BOOLEAN, og \in BOOLEAN, ot \in BOOLEAN, ho \in BOOLEAN}

RunInputs ==
  [messages : {1}, expect : BOOLEAN, maxToolPasses : PassesInputs, context : {"ctx"}]

\* ------------------------------------------------------------------ actions
Init ==
  /\ breaker = NewBreaker
  /\ clock = 0
  /\ agents \in {<<c>> : c \in Configs}
  /\ toolHeap = << <<>>, <<Calculator>>, <<Calculator, Search>> >>
  /\ inp \in RunInputs
  /\ pc = "idle"
  /\ i = 0
  /\ heap = <<InputMessages>>
  /\ history = 0
  /\ lastContent = <<>>
  /\ calls = <<>>
  /\ trace = <<>>
  /\ result = NoResult
  /\ self = 1
  /\ observer = Recorder
  /\ parked = <<>>
  /\ stream = <<>>
  /\ full = <<>>

PendingCall == calls[Len(calls)]

\* agent.run(inp): line 85
Run ==
  /\ pc = "idle"
  /\ IF baseConfig.inputGuard
       THEN Commit(Await(Cur, "inputGuard", inp.messages, <<>>, "", UndefinedValue))
       ELSE Commit(Seed(Cur, inp.messages))
  /\ UNCHANGED <<agents, toolHeap, inp, self, observer, parked, stream, full, breaker, clock>>

InputGuardReturns ==
  /\ pc = "inputGuard"
  /\ \E kind \in InputGuardKinds :
       IF kind = "same"
         THEN Commit(Seed(Settled(inp.messages), inp.messages))
         ELSE LET s1 == [Settled(Len(heap) + 1) EXCEPT
                           !.heap = Append(@, InputGuardResult(kind, heap[inp.messages]))]
              IN Commit(Seed(s1, Len(s1.heap)))
  /\ UNCHANGED <<agents, toolHeap, inp, self, observer, parked, stream, full, breaker, clock>>

InputGuardThrows ==
  /\ pc = "inputGuard"
  /\ Commit(Reject(Thrown, "inputGuard"))
  /\ UNCHANGED <<agents, toolHeap, inp, self, observer, parked, stream, full, breaker, clock>>

ChatReturns ==
  /\ pc = "chat"
  /\ \E response \in Responses : Commit(AfterChat(Settled(response), response))
  /\ UNCHANGED <<agents, toolHeap, inp, self, observer, parked, stream, full, breaker, clock>>

\* ChatThrows that calls the provider again while iterations are left
ChatThrowsRetried ==
  /\ pc = "chat"
  /\ IF i + 1 < LoopBound
       THEN Commit(Loop([Thrown EXCEPT !.i = @ + 1]))
       ELSE Commit(Reject(Thrown, "chat"))
  /\ UNCHANGED <<agents, toolHeap, inp, self, observer, parked, stream, full, breaker, clock>>

\* line 96: client.chat rejects; nothing in run catches it
ChatThrows ==
  /\ pc = "chat"
  /\ Commit(Reject(Thrown, "chat"))
  /\ UNCHANGED <<agents, toolHeap, inp, self, observer, parked, stream, full, breaker, clock>>

\* HandoffReturns that sends the callback's content through finalization
HandoffReturnsFinalized ==
  /\ pc = "handoff"
  /\ \E r \in HandoffResults : Commit(Finalize([Settled(r) EXCEPT !.lastContent = r.content]))
  /\ UNCHANGED <<agents, toolHeap, inp, self, observer, parked, stream, full, breaker, clock>>

\* lines 106-108
HandoffReturns ==
  /\ pc = "handoff"
  /\ \E r \in HandoffResults : Commit(Return(Settled(r), r.content, r.structured))
  /\ UNCHANGED <<agents, toolHeap, inp, self, observer, parked, stream, full, breaker, clock>>

HandoffThrows ==
  /\ pc = "handoff"
  /\ Commit(Reject(Thrown, "handoff"))
  /\ UNCHANGED <<agents, toolHeap, inp, self, observer, parked, stream, full, breaker, clock>>

\* ExecuteReturns that emits no tool:stop
ExecuteReturnsNoStop ==
  /\ pc = "execute"
  /\ \E value \in ToolResults(PendingCall.name, lastContent) :
       Commit(AfterTool(Settled(value), Stringify(value)))
  /\ UNCHANGED <<agents, toolHeap, inp, self, observer, parked, stream, full, breaker, clock>>

\* lines 175-177, then 116-127
ExecuteReturns ==
  /\ pc = "execute"
  /\ \E value \in ToolResults(PendingCall.name, lastContent) :
       LET s1 == Emit(Settled(value), TraceEvent("tool:stop", PendingCall.name, value.text, 0))
       IN Commit(AfterTool(s1, Stringify(value)))
  /\ UNCHANGED <<agents, toolHeap, inp, self, observer, parked, stream, full, breaker, clock>>

\* ExecuteThrows with a try/catch around execute that reports the error as the tool's result
ExecuteThrowsCaught ==
  /\ pc = "execute"
  /\ LET s1 == Emit(Thrown, TraceEvent("tool:stop", PendingCall.name, <<"error">>, 0))
     IN Commit(AfterTool(s1, <<"error">>))
  /\ UNCHANGED <<agents, toolHeap, inp, self, observer, parked, stream, full, breaker, clock>>

\* line 175: execute throws inside maybeExecuteTool, which run awaits at line 115
ExecuteThrows ==
  /\ pc = "execute"
  /\ Commit(Reject(Thrown, "execute"))
  /\ UNCHANGED <<agents, toolHeap, inp, self, observer, parked, stream, full, breaker, clock>>

OutputGuardReturns ==
  /\ pc = "outputGuard"
  /\ \E text \in OutputGuardResults(PendingCall.text) : Commit(AfterOutputGuard(Settled(text), text))
  /\ UNCHANGED <<agents, toolHeap, inp, self, observer, parked, stream, full, breaker, clock>>

\* OutputGuardThrows with a catch that goes on with the unguarded content
OutputGuardThrowsRecovered ==
  /\ pc = "outputGuard"
  /\ Commit(AfterOutputGuard(Thrown, PendingCall.text))
  /\ UNCHANGED <<agents, toolHeap, inp, self, observer, parked, stream, full, breaker, clock>>

\* line 131: outputGuard throws; nothing in run catches it
OutputGuardThrows ==
  /\ pc = "outputGuard"
  /\ Commit(Reject(Thrown, "outputGuard"))
  /\ UNCHANGED <<agents, toolHeap, inp, self, observer, parked, stream, full, breaker, clock>>

\* lines 135-139: expect.parse hands back the value it validated
ExpectReturns ==
  /\ pc = "expect"
  /\ Commit(Return(Settled(PendingCall.obj), PendingCall.text, PendingCall.obj))
  /\ UNCHANGED <<agents, toolHeap, inp, self, observer, parked, stream, full, breaker, clock>>

ExpectThrows ==
  /\ pc = "expect"
  /\ Commit(Reject(Thrown, "expect"))
  /\ UNCHANGED <<agents, toolHeap, inp, self, observer, parked, stream, full, breaker, clock>>

Next ==
  \/ Run
  \/ InputGuardReturns
  \/ InputGuardThrows
  \/ ChatReturns
  \/ ChatThrows
  \/ HandoffReturns
  \/ HandoffThrows
  \/ ExecuteReturns
  \/ ExecuteThrows
  \/ OutputGuardReturns
  \/ OutputGuardThrows
  \/ ExpectReturns
  \/ ExpectThrows

Spec == Init /\ [][Next]_vars

\* a run of an agent with tools in which every external call settles: a promise that
\* is awaited resolves or rejects
InitLive ==
  /\ breaker = NewBreaker
  /\ clock = 0
  /\ agents \in {<<AgentConfig("Router", "Be concise.", 3, ig, og, FALSE, ho)>> :
                    ig \in BOOLEAN, og \in BOOLEAN, ho \in BOOLEAN}
  /\ toolHeap = << <<>>, <<Calculator>>, <<Calculator, Search>> >>
  /\ inp \in [messages : {1}, expect : BOOLEAN,
               maxToolPasses : PassesInputs, context : {"ctx"}]
  /\ pc = "idle"
  /\ i = 0
  /\ heap = <<InputMessages>>
  /\ history = 0
  /\ lastContent = <<>>
  /\ calls = <<>>
  /\ trace = <<>>
  /\ result = NoResult
  /\ self = 1
  /\ observer = Recorder
  /\ parked = <<>>
  /\ stream = <<>>
  /\ full = <<>>

\* The step every action of Next is: the run leaves the point it is at.  It is possible
\* exactly where Next is (anywhere but at the end of the run).
Advance ==
  /\ pc \notin {"returned", "rejected"}
  /\ pc' \in {"inputGuard", "chat", "handoff", "execute", "outputGuard", "expect",
               "returned", "rejected"} \ {pc}

SpecLive == InitLive /\ [][Next]_vars /\ WF_pc(Advance)

\* ------------------------------------------------------------------ run with an onTrace of any kind
\* what the function configured as onTrace may do
Observers == {Recorder, Pusher, Thrower("agent:start"), Thrower("tool:stop")}

InitObserver ==
  /\ breaker = NewBreaker
  /\ clock = 0
  /\ agents \in {<<AgentConfig("Router", "Be concise.", tl, ig, og, TRUE, ho)>> :
                    tl \in {0, 3}, ig \in BOOLEAN, og \in BOOLEAN, ho \in BOOLEAN}
  /\ toolHeap = << <<>>, <<Calculator>>, <<Calculator, Search>> >>
  /\ inp \in [messages : {1}, expect : BOOLEAN,
               maxToolPasses : {[given |-> TRUE, value |-> MaxPassesInput]}, context : {"ctx"}]
  /\ pc = "idle"
  /\ i = 0
  /\ heap = <<InputMessages>>
  /\ history = 0
  /\ lastContent = <<>>
  /\ calls = <<>>
  /\ trace = <<>>
  /\ result = NoResult
  /\ self = 1
  /\ observer \in Observers
  /\ parked = <<>>
  /\ stream = <<>>
  /\ full = <<>>

SpecObserver == InitObserver /\ [][Next]_vars

\* ------------------------------------------------------------------ the same run, executed alone
\* The run call of the executing run (same baseConfig, same inp), executed from its
\* start on a heap of its own with onTrace = kind, and given the outcomes that the
\* external calls recorded in calls had.
FreshRun(kind) ==
  [pc |-> "idle", i |-> 0, heap |-> <<InputMessages>>, history |-> 0, lastContent |-> <<>>,
   calls |-> <<>>, trace |-> <<>>, result |-> NoResult, onTrace |-> kind]

\* line 85
Started(st) ==
  IF baseConfig.inputGuard
    THEN Await(st, "inputGuard", inp.messages, <<>>, "", UndefinedValue)
    ELSE Seed(st, inp.messages)

\* the call st awaits settles as the recorded call c did
Resume(st, c) ==
  IF st.pc # c.fn \/ c.outcome = "pending" THEN st
  ELSE LET s == [st EXCEPT !.calls[Len(st.calls)] = [@ EXCEPT !.outcome = c.outcome, !.ret = c.ret]]
       IN IF c.outcome = "threw" THEN Reject(s, c.fn)
          ELSE IF c.fn = "inputGuard" THEN
            IF c.ret = inp.messages THEN Seed(s, inp.messages)
            ELSE LET s1 == [s EXCEPT !.heap = Append(@, heap[c.ret]),
                                     !.calls[Len(s.calls)].ret = Len(s.heap) + 1]
                 IN Seed(s1, Len(s1.heap))
          ELSE IF c.fn = "chat" THEN AfterChat(s, c.ret)
          ELSE IF c.fn = "handoff" THEN Return(s, c.ret.content, c.ret.structured)
          ELSE IF c.fn = "execute"
            THEN AfterTool(Emit(s, TraceEvent("tool:stop", c.name, c.ret.text, 0)), Stringify(c.ret))
          ELSE IF c.fn = "outputGuard" THEN AfterOutputGuard(s, c.ret)
          ELSE Return(s, c.text, c.obj)

RECURSIVE Replay(_, _)
Replay(st, k) == IF k > Len(calls) THEN st ELSE Replay(Resume(st, calls[k]), k + 1)

RunAlone(kind) == IF pc = "idle" THEN FreshRun(kind) ELSE Replay(Started(FreshRun(kind)), 1)

\* ------------------------------------------------------------------ concurrent run calls
\* Two run calls made without awaiting the first (Promise.all): on the same agent or
\* on two agents made with the same client.  A run call executes until it awaits;
\* which awaiting call settles next is up to the environment.  The locals of a run
\* call (lines 82-91) belong to the call; the arrays live on the one heap, and both
\* calls are handed the same messages array.
Router == AgentConfig("Router", "Be concise.", 3, TRUE, FALSE, TRUE, FALSE)
Helper == AgentConfig("Helper", Absent, 2, FALSE, TRUE, FALSE, TRUE)

Locals ==
  [self |-> self, inp |-> inp, pc |-> pc, i |-> i, history |-> history,
   lastContent |-> lastContent, calls |-> calls, trace |-> trace, result |-> result]

InitConcurrent ==
  /\ breaker = NewBreaker
  /\ clock = 0
  /\ agents = <<Router, Helper>>
  /\ toolHeap = << <<>>, <<Calculator>>, <<Calculator, Search>> >>
  /\ self = 1
  /\ inp = [messages |-> 1, expect |-> FALSE,
            maxToolPasses |-> [given |-> TRUE, value |-> 1], context |-> "ctx"]
  /\ pc = "idle"
  /\ i = 0
  /\ heap = <<InputMessages>>
  /\ history = 0
  /\ lastContent = <<>>
  /\ calls = <<>>
  /\ trace = <<>>
  /\ result = NoResult
  /\ observer = Recorder
  /\ \E n \in 1..2 :
       parked = <<[self |-> n,
                   inp |-> [messages |-> 1, expect |-> TRUE,
                            maxToolPasses |-> [given |-> TRUE, value |-> 0], context |-> "ctx2"],
                   pc |-> "idle", i |-> 0, history |-> 0, lastContent |-> <<>>,
                   calls |-> <<>>, trace |-> <<>>, result |-> NoResult]>>
  /\ stream = <<>>
  /\ full = <<>>

\* the event loop turns to the other run call
Switch ==
  /\ parked # <<>>
  /\ self' = Head(parked).self
  /\ inp' = Head(parked).inp
  /\ pc' = Head(parked).pc
  /\ i' = Head(parked).i
  /\ history' = Head(parked).history
  /\ lastContent' = Head(parked).lastContent
  /\ calls' = Head(parked).calls
  /\ trace' = Head(parked).trace
  /\ result' = Head(parked).result
  /\ parked' = Append(Tail(parked), Locals)
  /\ UNCHANGED <<agents, toolHeap, heap, observer, stream, full, breaker, clock>>

NextConcurrent == Next \/ Switch

SpecConcurrent == InitConcurrent /\ [][NextConcurrent]_vars

\* ------------------------------------------------------------------ agent.with
\* a Map whose set keeps the definition a name already has
MapSetKeepFirst(byName, t) ==
  IF \E k \in 1..Len(byName) : byName[k].name = t.name THEN byName ELSE Append(byName, t)

\* byName.set(t.name, t) on a Map kept as the list of its values in insertion order:
\* a name already present keeps its place and takes the new definition
MapSet(byName, t) ==
  IF \E k \in 1..Len(byName) : byName[k].name = t.name
    THEN [k \in 1..Len(byName) |-> IF byName[k].name = t.name THEN t ELSE byName[k]]
    ELSE Append(byName, t)

RECURSIVE MapSetAll(_, _)
MapSetAll(byName, list) ==
  IF list = <<>> THEN byName ELSE MapSetAll(MapSet(byName, Head(list)), Tail(list))

\* mergeTools that adds b's tools to the array a itself and returns a
mergeToolsInPlace(th, a, b) ==
  IF a = 0 /\ b = 0 THEN [heap |-> th, ref |-> 0]
  ELSE IF a = 0 THEN [heap |-> Append(th, MapSetAll(<<>>, th[b])), ref |-> Len(th) + 1]
  ELSE LET lb == IF b = 0 THEN <<>> ELSE th[b]
       IN [heap |-> [th EXCEPT ![a] = MapSetAll(MapSetAll(<<>>, th[a]), lb)], ref |-> a]

\* mergeTools that returns undefined whenever the extension brings no tools
mergeToolsNoExtension(th, a, b) ==
  IF b = 0 THEN [heap |-> th, ref |-> 0]
  ELSE LET la == IF a = 0 THEN <<>> ELSE th[a]
           th1 == Append(th, MapSetAll(MapSetAll(<<>>, la), th[b]))
       IN [heap |-> th1, ref |-> Len(th1)]

\* mergeTools(a, b) on references into th (0 = undefined): the heap after the call
\* and the reference returned; Array.from allocates the list returned
mergeTools(th, a, b) ==
  IF a = 0 /\ b = 0 THEN [heap |-> th, ref |-> 0]
  ELSE LET la == IF a = 0 THEN <<>> ELSE th[a]
           lb == IF b = 0 THEN <<>> ELSE th[b]
           th1 == Append(th, MapSetAll(MapSetAll(<<>>, la), lb))
       IN [heap |-> th1, ref |-> Len(th1)]

\* { ...baseConfig, ...extension }: a key the extension has wins, also when its value is undefined
Spread(config, extension) ==
  [config EXCEPT
     !.name = IF "name" \in extension.has THEN extension.name ELSE @,
     !.instructions = IF "instructions" \in extension.has THEN extension.instructions ELSE @]

RECURSIVE SeqsUpTo(_, _)
SeqsUpTo(S, n) ==
  IF n = 0 THEN {<<>>}
  ELSE LET shorter == SeqsUpTo(S, n - 1)
       IN shorter \cup {Append(q, x) : q \in {r \in shorter : Len(r) = n - 1}, x \in S}

\* the tool lists of a first agent, and those an extension brings
BaseToolLists == SeqsUpTo({ToolDefinition("calculator", "a"), ToolDefinition("search", "a")}, MaxToolList)
ExtensionToolLists ==
  SeqsUpTo({ToolDefinition("search", "b"), ToolDefinition("search", "c")}, MaxToolList)

\* an extension brings tools, or a name and an instructions key that is undefined, or nothing
Extensions ==
  {[has |-> {}, name |-> Absent, instructions |-> Absent, tools |-> t] :
     t \in {[defined |-> FALSE, list |-> <<>>]}
           \cup {[defined |-> TRUE, list |-> l] : l \in ExtensionToolLists}}
  \cup {[has |-> {"name", "instructions"}, name |-> "Helper", instructions |-> Absent,
         tools |-> [defined |-> FALSE, list |-> <<>>]]}

InitWith ==
  /\ breaker = NewBreaker
  /\ clock = 0
  /\ \E a \in BaseToolLists, tl \in 0..1 :
       /\ toolHeap = <<a>>
       /\ agents = <<AgentConfig("Router", "Be concise.", tl, FALSE, FALSE, FALSE, FALSE)>>
  /\ inp = [messages |-> 1, expect |-> FALSE,
            maxToolPasses |-> [given |-> FALSE, value |-> 0], context |-> "ctx"]
  /\ pc = "idle"
  /\ i = 0
  /\ heap = <<InputMessages>>
  /\ history = 0
  /\ lastContent = <<>>
  /\ calls = <<>>
  /\ trace = <<>>
  /\ result = NoResult
  /\ self = 1
  /\ observer = Recorder
  /\ parked = <<>>
  /\ stream = <<>>
  /\ full = <<>>

\* agents[n].with(extension): lines 79-81.  The caller's extension.tools is an array
\* of its own; calls records the call with the lists it was given.
With(n, extension) ==
  /\ Len(agents) <= MaxWithCalls
  /\ LET th1 == IF extension.tools.defined THEN Append(toolHeap, extension.tools.list) ELSE toolHeap
         b == IF extension.tools.defined THEN Len(th1) ELSE 0
         merged == mergeTools(th1, agents[n].tools, b)
         config == [Spread(agents[n], extension) EXCEPT !.tools = merged.ref]
     IN /\ toolHeap' = merged.heap
        /\ agents' = Append(agents, config)
        /\ calls' = Append(calls, [fn |-> "with", base |-> n, made |-> Len(agents) + 1,
                                    a |-> ToolsOf(agents[n]), b |-> extension.tools])
  /\ UNCHANGED <<inp, pc, i, heap, history, lastContent, trace, result, self, observer, parked,
               stream, full, breaker, clock>>

NextWith == \E n \in 1..Len(agents), extension \in Extensions : With(n, extension)

SpecWith == InitWith /\ [][NextWith]_vars

\* ------------------------------------------------------------------ maybeExecuteTool called directly
Texts == SeqsUpTo(Alphabet, MaxTextLen) \cup Responses

InitTool ==
  /\ breaker = NewBreaker
  /\ clock = 0
  /\ toolHeap = << <<>>, <<Calculator>>, <<Calculator, Search>> >>
  /\ \E tl \in 0..3, ot \in BOOLEAN :
       agents = <<AgentConfig("Router", Absent, tl, FALSE, FALSE, ot, FALSE)>>
  /\ inp = [messages |-> 1, expect |-> FALSE,
            maxToolPasses |-> [given |-> FALSE, value |-> 0], context |-> "ctx"]
  /\ pc = "idle"
  /\ i = 0
  /\ heap = <<InputMessages>>
  /\ history = 0
  /\ lastContent \in Texts
  /\ calls = <<>>
  /\ trace = <<>>
  /\ result = NoResult
  /\ self = 1
  /\ observer = Recorder
  /\ parked = <<>>
  /\ stream = <<>>
  /\ full = <<>>

\* maybeExecuteTool(lastContent, baseConfig.tools, inp.context, baseConfig.onTrace): lines 163-175
CallMaybeExecuteTool ==
  /\ pc = "idle"
  /\ LET m == maybeExecuteTool(lastContent, ToolsOf(baseConfig))
         s1 == Emit(Cur, TraceEvent("tool:start", m.tool.name, m.args, 0))
     IN IF m.call
          THEN Commit(Await(s1, "execute", 0, m.args, m.tool.name, UndefinedValue))
          ELSE Commit([Cur EXCEPT !.pc = "returned",
                                  !.result = [NoResult EXCEPT !.status = "returned",
                                                              !.content = lastContent]])
  /\ UNCHANGED <<agents, toolHeap, inp, self, observer, parked, stream, full, breaker, clock>>

\* lines 175-177
ToolReturns ==
  /\ pc = "execute"
  /\ \E value \in ToolResults(PendingCall.name, lastContent) \cup {UndefinedResult} :
       LET s1 == Emit(Settled(value), TraceEvent("tool:stop", PendingCall.name, value.text, 0))
       IN Commit([s1 EXCEPT !.pc = "returned",
                            !.result = [NoResult EXCEPT !.status = "returned",
                                                        !.content = Stringify(value)]])
  /\ UNCHANGED <<agents, toolHeap, inp, self, observer, parked, stream, full, breaker, clock>>

ToolThrows ==
  /\ pc = "execute"
  /\ Commit(Reject(Thrown, "execute"))
  /\ UNCHANGED <<agents, toolHeap, inp, self, observer, parked, stream, full, breaker, clock>>

NextTool == CallMaybeExecuteTool \/ ToolReturns \/ ToolThrows

SpecTool == InitTool /\ [][NextTool]_vars

\* ------------------------------------------------------------------ openaiClient chat
\* A chunk of the stream, by what chunk.choices?.[0]?.delta?.content is: a string
\* (possibly empty), or undefined (no choices, no delta or no content).
Chunk(content) == [content |-> content]
Chunks == {Chunk(<<"w">>), Chunk(<<"1", "w">>), Chunk(<<>>), Chunk(Undefined)}

\* x ?? ''
OrEmpty(content) == IF content = Undefined THEN <<>> ELSE content

InitStream ==
  /\ breaker = NewBreaker
  /\ clock = 0
  /\ stream \in SeqsUpTo(Chunks, MaxChunks)
  /\ full = <<>>
  /\ inp \in [onDelta : BOOLEAN]
  /\ pc = "idle"
  /\ calls = <<>>
  /\ result = NoResult
  /\ agents = <<>>
  /\ toolHeap = <<>>
  /\ i = 0
  /\ heap = <<>>
  /\ history = 0
  /\ lastContent = <<>>
  /\ trace = <<>>
  /\ self = 1
  /\ observer = Recorder
  /\ parked = <<>>

\* chat(args): lines 24-37 with onDelta, lines 48-53 without; awaits completions.create
Chat ==
  /\ pc = "idle"
  /\ pc' = "create"
  /\ full' = <<>>
  /\ UNCHANGED <<agents, toolHeap, inp, i, heap, history, lastContent, calls, trace, result,
                 self, observer, parked, stream, breaker, clock>>

\* completions.create resolves: with the stream (line 38 on), or with the completion,
\* whose message content is a string or missing (lines 55-56)
CreateReturns ==
  /\ pc = "create"
  /\ IF inp.onDelta
       THEN pc' = "streaming" /\ result' = result
       ELSE /\ pc' = "returned"
            /\ \E content \in {<<"w">>, <<>>, Undefined} :
                 result' = [NoResult EXCEPT !.status = "returned", !.content = OrEmpty(content)]
  /\ UNCHANGED <<agents, toolHeap, inp, i, heap, history, lastContent, calls, trace,
                 self, observer, parked, stream, full, breaker, clock>>

CreateThrows ==
  /\ pc = "create"
  /\ pc' = "rejected"
  /\ result' = [NoResult EXCEPT !.status = "rejected", !.error = "create"]
  /\ UNCHANGED <<agents, toolHeap, inp, i, heap, history, lastContent, calls, trace,
                 self, observer, parked, stream, full, breaker, clock>>

\* NextChunk that hands every delta to onDelta, the empty ones too
NextChunkUnfiltered ==
  /\ pc = "streaming"
  /\ stream # <<>>
  /\ LET delta == OrEmpty(Head(stream).content)
     IN /\ full' = full \o delta
        /\ calls' = calls \o <<[fn |-> "chunk", content |-> Head(stream).content],
                                [fn |-> "onDelta", content |-> delta]>>
        /\ \E ok \in BOOLEAN :
             IF ok THEN pc' = pc /\ result' = result
             ELSE /\ pc' = "rejected"
                  /\ result' = [NoResult EXCEPT !.status = "rejected", !.error = "onDelta"]
  /\ stream' = Tail(stream)
  /\ UNCHANGED <<agents, toolHeap, inp, i, heap, history, lastContent, trace,
                 self, observer, parked, breaker, clock>>

\* lines 38-44: one turn of the for await loop; onDelta returns or throws
NextChunk ==
  /\ pc = "streaming"
  /\ stream # <<>>
  /\ LET delta == OrEmpty(Head(stream).content)
     IN IF delta # <<>>
          THEN /\ full' = full \o delta
               /\ calls' = calls \o <<[fn |-> "chunk", content |-> Head(stream).content],
                                       [fn |-> "onDelta", content |-> delta]>>
               /\ \E ok \in BOOLEAN :
                    IF ok THEN pc' = pc /\ result' = result
                    ELSE /\ pc' = "rejected"
                         /\ result' = [NoResult EXCEPT !.status = "rejected", !.error = "onDelta"]
          ELSE /\ calls' = Append(calls, [fn |-> "chunk", content |-> Head(stream).content])
               /\ UNCHANGED <<full, pc, result>>
  /\ stream' = Tail(stream)
  /\ UNCHANGED <<agents, toolHeap, inp, i, heap, history, lastContent, trace,
                 self, observer, parked, breaker, clock>>

\* the stream throws (the connection drops, the signal aborts)
StreamThrows ==
  /\ pc = "streaming"
  /\ pc' = "rejected"
  /\ result' = [NoResult EXCEPT !.status = "rejected", !.error = "stream"]
  /\ UNCHANGED <<agents, toolHeap, inp, i, heap, history, lastContent, calls, trace,
                 self, observer, parked, stream, full, breaker, clock>>

\* line 45: the stream has ended
StreamEnds ==
  /\ pc = "streaming"
  /\ stream = <<>>
  /\ pc' = "returned"
  /\ result' = [NoResult EXCEPT !.status = "returned", !.content = full]
  /\ UNCHANGED <<agents, toolHeap, inp, i, heap, history, lastContent, calls, trace,
                 self, observer, parked, stream, full, breaker, clock>>

NextStream == Chat \/ CreateReturns \/ CreateThrows \/ NextChunk \/ StreamThrows \/ StreamEnds

SpecStream == InitStream /\ [][NextStream]_vars

\* ------------------------------------------------------------------ functional-agents-js: withTools
\* A configuration of the functional builder library; tools is a reference into
\* toolHeap, 0 when the key is absent.
BuilderConfig(name, maxTurns, tools) == [name |-> name, maxTurns |-> maxTurns, tools |-> tools]

Tool1 == ToolDefinition("tool1", "a")
Tool2 == ToolDefinition("tool2", "a")
BuilderToolLists == SeqsUpTo({Tool1, Tool2}, MaxToolList)

\* The first configuration: an object literal without tools, or what createAgent made
\* of { name, instructions } (tools: [] of its own) or of a config that brings a
\* tools array (which ...config then keeps by reference).
InitBuilder ==
  /\ breaker = NewBreaker
  /\ clock = 0
  /\ \/ /\ toolHeap = <<>>
        /\ agents = <<BuilderConfig("Test", 0, 0)>>
     \/ \E l \in BuilderToolLists :
          /\ toolHeap = <<l>>
          /\ agents = <<BuilderConfig("Test", DefaultMaxTurns, 1)>>
  /\ inp = [messages |-> 1, expect |-> FALSE,
            maxToolPasses |-> [given |-> FALSE, value |-> 0], context |-> "ctx"]
  /\ pc = "idle"
  /\ i = 0
  /\ heap = <<>>
  /\ history = 0
  /\ lastContent = <<>>
  /\ calls = <<>>
  /\ trace = <<>>
  /\ result = NoResult
  /\ self = 1
  /\ observer = Recorder
  /\ parked = <<>>
  /\ stream = <<>>
  /\ full = <<>>

\* withTools that pushes the tools onto config.tools and returns config
withToolsPush(th, config, tools) ==
  IF config.tools = 0
    THEN [heap |-> Append(th, tools), config |-> [config EXCEPT !.tools = Len(th) + 1]]
    ELSE [heap |-> [th EXCEPT ![config.tools] = @ \o tools], config |-> config]

\* withTools(tools)(config): ({ ...config, tools: [...(config.tools || []), ...tools] })
withTools(th, config, tools) ==
  LET old == IF config.tools = 0 THEN <<>> ELSE th[config.tools]
      th1 == Append(th, old \o tools)
  IN [heap |-> th1, config |-> [config EXCEPT !.tools = Len(th1)]]

\* a caller applies withTools(tools) to the configuration agents[n]; calls records the
\* call with the configuration and the tools list it was given
WithTools(n, tools) ==
  /\ Len(agents) <= MaxBuilderCalls
  /\ LET made == withTools(toolHeap, agents[n], tools)
     IN /\ toolHeap' = made.heap
        /\ agents' = Append(agents, made.config)
        /\ calls' = Append(calls, [fn |-> "withTools", base |-> n, made |-> Len(agents) + 1,
                                    config |-> agents[n],
                                    before |-> IF agents[n].tools = 0 THEN <<>>
                                               ELSE toolHeap[agents[n].tools],
                                    tools |-> tools])
  /\ UNCHANGED <<inp, pc, i, heap, history, lastContent, trace, result, self, observer, parked,
                 stream, full, breaker, clock>>

NextBuilder == \E n \in 1..Len(agents), tools \in BuilderToolLists : WithTools(n, tools)

SpecBuilder == InitBuilder /\ [][NextBuilder]_vars

\* ------------------------------------------------------------------ functional-agents-js: run, runStreaming
\* The runner of the functional library.  agents[1] is the AgentConfig it is given
\* (valid: validateAgentConfig accepts a maxTurns that is missing, 0, or at least 1),
\* inp is the runConfig and which of the two functions is called, i is turns,
\* heap[history] is the messages array, calls holds the provider calls and the
\* executeTools calls.  0 stands for a maxTurns that is missing or 0 (both falsy).
RunnerMessage(role, content, toolCallId) == [role |-> role, content |-> content, toolCallId |-> toolCallId]

ToolCall(id, name, arguments) == [id |-> id, name |-> name, arguments |-> arguments]

ToolResult(toolCallId, text, success, error) ==
  [toolCallId |-> toolCallId, result |-> text, success |-> success, error |-> error]

\* what executeTools (Promise.all over executeTool) may resolve to for a list of calls;
\* executeTool, which is modelled in full further down, resolves to a success or to a
\* failure
ExecuteToolsResults(toolCalls) ==
  IF toolCalls = <<>> THEN {<<>>}
  ELSE {<<r>> : r \in {ToolResult(toolCalls[1].id, <<"1">>, TRUE, ""),
                       ToolResult(toolCalls[1].id, <<"Error executing tool">>, FALSE, "boom")}}

InitRunner ==
  /\ breaker = NewBreaker
  /\ clock = 0
  /\ toolHeap = << <<Tool1>> >>
  /\ agents \in {<<BuilderConfig("Test", mt, 1)>> : mt \in 0..2}
  /\ inp \in [maxTurns : 0..MaxTurnsInput, streaming : BOOLEAN]
  /\ pc = "idle"
  /\ i = 0
  /\ heap = << <<>> >>
  /\ history = 1
  /\ lastContent = <<>>
  /\ calls = <<>>
  /\ trace = <<>>
  /\ result = NoResult
  /\ self = 1
  /\ observer = Recorder
  /\ parked = <<>>
  /\ stream = <<>>
  /\ full = <<>>

\* const maxTurns = runConfig?.maxTurns || config.maxTurns || 10
maxTurns ==
  IF inp.maxTurns # 0 THEN inp.maxTurns
  ELSE IF agents[self].maxTurns # 0 THEN agents[self].maxTurns
  ELSE RunnerDefaultMaxTurns

\* the runner between two awaits, as a function of its state
RunnerCur == [pc |-> pc, i |-> i, messages |-> heap[history], calls |-> calls, result |-> result]

RunnerCommit(st) ==
  /\ pc' = st.pc
  /\ i' = st.i
  /\ heap' = [heap EXCEPT ![history] = st.messages]
  /\ calls' = st.calls
  /\ result' = st.result
  /\ UNCHANGED <<agents, toolHeap, inp, history, lastContent, trace, self, observer, parked,
                 stream, full, breaker, clock>>

RunnerCall(fn, snap, toolCalls) ==
  [fn |-> fn, snap |-> snap, toolCalls |-> toolCalls, outcome |-> "pending", ret |-> <<>>]

RunnerSettled(outcome, ret) ==
  [RunnerCur EXCEPT !.calls[Len(calls)] = [@ EXCEPT !.outcome = outcome, !.ret = ret]]

RunnerReject(st, error) ==
  [st EXCEPT !.pc = "rejected", !.result = [NoResult EXCEPT !.status = "rejected", !.error = error]]

\* AfterLoop that throws only when the loop ran out of turns without a final response
AfterLoopUnlessFinal(st, final) ==
  IF st.i >= maxTurns /\ ~final THEN RunnerReject(st, "Maximum turns exceeded")
  ELSE [st EXCEPT !.pc = "returned",
                  !.result = [status |-> "returned", content |-> st.messages[Len(st.messages)].content,
                              structured |-> UndefinedValue, error |-> "", turns |-> st.i]]

\* lines 321-350 (453-482): the throw when turns >= maxTurns, else the result; final
\* says whether the loop was left by break
AfterLoop(st, final) ==
  IF st.i >= maxTurns THEN RunnerReject(st, "Maximum turns exceeded")
  ELSE [st EXCEPT !.pc = "returned",
                  !.result = [status |-> "returned", content |-> st.messages[Len(st.messages)].content,
                              structured |-> UndefinedValue, error |-> "", turns |-> st.i]]

\* lines 293-294 (380-386): the loop test, turns++, and the request to the provider
RunnerLoop(st) ==
  IF st.i < maxTurns
    THEN [st EXCEPT !.i = @ + 1, !.pc = "create",
                    !.calls = Append(@, RunnerCall("create", st.messages, <<>>))]
    ELSE AfterLoop(st, FALSE)

\* run(config, input, runConfig) / runStreaming(...) with a string input: lines 277-294
RunnerRun ==
  /\ pc = "idle"
  /\ RunnerCommit(RunnerLoop([RunnerCur EXCEPT !.messages = <<RunnerMessage("user", <<"w">>, "")>>]))

\* the provider answers.  run: runTurn (lines 216-270) throws without a choice, awaits
\* executeTools when tool_calls is truthy (an empty array is), and otherwise the turn
\* is final.  runStreaming: the message is pushed, then executeTools is awaited when
\* toolCalls.length > 0, and otherwise the turn is final (lines 398-451).
CompletionReturns ==
  /\ pc = "create"
  /\ \E c \in
         {[choice |-> FALSE, content |-> <<>>, tool_calls |-> [defined |-> FALSE, list |-> <<>>]]}
         \cup {[choice |-> TRUE, content |-> <<"w">>, tool_calls |-> tc] :
                 tc \in {[defined |-> FALSE, list |-> <<>>],
                         [defined |-> TRUE, list |-> <<>>],
                         [defined |-> TRUE, list |-> <<ToolCall("call_1", "tool1", "valid")>>]}} :
       LET st == RunnerSettled("returned", c)
           message == RunnerMessage("assistant", c.content, "")
           pushed == [st EXCEPT !.messages = Append(@, message)]
       IN IF inp.streaming
            THEN /\ c.choice
                 /\ IF Len(c.tool_calls.list) > 0
                      THEN RunnerCommit([pushed EXCEPT
                             !.pc = "executeTools",
                             !.calls = Append(@, RunnerCall("executeTools", <<>>, c.tool_calls.list))])
                      ELSE RunnerCommit(AfterLoop(pushed, TRUE))
            ELSE IF ~c.choice THEN RunnerCommit(RunnerReject(st, "No response from model"))
                 ELSE IF c.tool_calls.defined
                   THEN RunnerCommit([st EXCEPT
                          !.pc = "executeTools",
                          !.calls = Append(@, RunnerCall("executeTools", <<>>, c.tool_calls.list))])
                   ELSE RunnerCommit(AfterLoop(pushed, TRUE))

\* openai.chat.completions.create rejects (or the stream does): nothing catches it
CompletionThrows ==
  /\ pc = "create"
  /\ RunnerCommit(RunnerReject(RunnerSettled("threw", <<>>), "create"))

\* executeTools resolves: lines 303-318 (437-448) push the tool messages (run pushes
\* the assistant message first), then the loop test
ExecuteToolsReturns ==
  /\ pc = "executeTools"
  /\ \E results \in ExecuteToolsResults(calls[Len(calls)].toolCalls) :
       LET st == RunnerSettled("returned", results)
           message == RunnerMessage("assistant", calls[Len(calls) - 1].ret.content, "")
           toolMessages == [k \in 1..Len(results) |->
                              RunnerMessage("tool", results[k].result, results[k].toolCallId)]
           pushed == [st EXCEPT !.messages =
                        (IF inp.streaming THEN @ ELSE Append(@, message)) \o toolMessages]
       IN RunnerCommit(RunnerLoop(pushed))

NextRunner == RunnerRun \/ CompletionReturns \/ CompletionThrows \/ ExecuteToolsReturns

SpecRunner == InitRunner /\ [][NextRunner]_vars

\* ------------------------------------------------------------------ functional-agents-js: executeTool
\* executeTool(toolCall, tools, context) called directly.  inp is the toolCall and the
\* tools argument (a reference into toolHeap, 0 = undefined, for which the default []
\* stands in).  A tool of the runner has a name and a needsApproval that is missing,
\* a boolean, or a function; toolCall.function.arguments is JSON that the tool's
\* schema accepts ("valid"), JSON that it rejects ("invalid"), or no JSON at all.
InitExecuteTool ==
  /\ breaker = NewBreaker
  /\ clock = 0
  /\ \E ap \in {"absent", "false", "true", "function"} :
       toolHeap = << <<[name |-> "tool1", needsApproval |-> ap]>> >>
  /\ agents = <<BuilderConfig("Test", 0, 1)>>
  /\ inp \in [toolCall : {ToolCall(id, name, args) : id \in {"call_1", "call_2"},
                                                     name \in {"tool1", "tool2"},
                                                     args \in {"valid", "invalid", "unparsable"}},
               tools : 0..1]
  /\ pc = "idle"
  /\ i = 0
  /\ heap = <<>>
  /\ history = 0
  /\ lastContent = <<>>
  /\ calls = <<>>
  /\ trace = <<>>
  /\ result = NoResult
  /\ self = 1
  /\ observer = Recorder
  /\ parked = <<>>
  /\ stream = <<>>
  /\ full = <<>>

\* tools = [] by default
ToolsArgument == IF inp.tools = 0 THEN <<>> ELSE toolHeap[inp.tools]

\* executeTool between two awaits, as a function of its state
ToolCur == [pc |-> pc, calls |-> calls, result |-> result]

ToolCommit(st) ==
  /\ pc' = st.pc
  /\ calls' = st.calls
  /\ result' = st.result
  /\ UNCHANGED <<agents, toolHeap, inp, i, heap, history, lastContent, trace, self, observer,
                 parked, stream, full, breaker, clock>>

\* the pending call has settled
ToolSettled(outcome) == [ToolCur EXCEPT !.calls[Len(calls)].outcome = outcome]

\* return a ToolResult
Resolve(st, toolResult) ==
  [st EXCEPT !.pc = "returned", !.result = [status |-> "returned", toolResult |-> toolResult]]

\* the catch block of lines 88-95: what was thrown becomes a failed ToolResult
Caught(st, message) ==
  Resolve(st, ToolResult(inp.toolCall.id, <<"Error executing tool", message>>, FALSE, message))

ToolAwait(st, fn) ==
  [st EXCEPT !.pc = fn,
             !.calls = Append(@, [fn |-> fn, name |-> inp.toolCall.name, outcome |-> "pending"])]

\* lines 70-79 once needsApproval is known: the refusal, or await tool.execute
Approval(st, needsApproval) ==
  IF needsApproval
    THEN Resolve(st, ToolResult(inp.toolCall.id, <<"Tool execution requires approval">>, FALSE,
                                "Approval required"))
    ELSE ToolAwait(st, "execute")

\* executeTool(toolCall, tools): lines 47-68, up to the first await or to the ToolResult
ExecuteTool ==
  /\ pc = "idle"
  /\ LET tool == Find(ToolsArgument, inp.toolCall.name)
     IN IF tool = 0
          THEN ToolCommit(Resolve(ToolCur, ToolResult(inp.toolCall.id, <<"Tool not found">>, FALSE,
                                                      "Tool not found")))
        ELSE IF inp.toolCall.arguments = "unparsable" THEN ToolCommit(Caught(ToolCur, "SyntaxError"))
        ELSE IF inp.toolCall.arguments = "invalid" THEN ToolCommit(Caught(ToolCur, "ZodError"))
        ELSE IF ToolsArgument[tool].needsApproval = "function"
          THEN ToolCommit(ToolAwait(ToolCur, "needsApproval"))
        ELSE ToolCommit(Approval(ToolCur, ToolsArgument[tool].needsApproval = "true"))

\* the needsApproval function answers
NeedsApprovalReturns ==
  /\ pc = "needsApproval"
  /\ \E needsApproval \in BOOLEAN : ToolCommit(Approval(ToolSettled("returned"), needsApproval))

NeedsApprovalThrows ==
  /\ pc = "needsApproval"
  /\ ToolCommit(Caught(ToolSettled("threw"), "approval failed"))

\* lines 79-86: execute returned a string, an object, undefined, or an object that
\* refers to itself, on which JSON.stringify throws
RunnerToolReturns ==
  /\ pc = "execute"
  /\ \E value \in {StringResult(<<"1">>), ObjectResult(<<"{", "}">>), UndefinedResult,
                    [type |-> "circular", text |-> <<>>]} :
       IF value.type = "circular"
         THEN ToolCommit(Caught(ToolSettled("returned"), "TypeError"))
         ELSE ToolCommit(Resolve(ToolSettled("returned"),
                                 ToolResult(inp.toolCall.id, Stringify(value), TRUE, "")))

\* RunnerToolThrows without the try/catch of lines 57-96
RunnerToolThrowsUncaught ==
  /\ pc = "execute"
  /\ ToolCommit([ToolSettled("threw") EXCEPT
                  !.pc = "rejected",
                  !.result = [NoResult EXCEPT !.status = "rejected", !.error = "boom"]])

\* line 79: execute throws, inside the try
RunnerToolThrows ==
  /\ pc = "execute"
  /\ ToolCommit(Caught(ToolSettled("threw"), "boom"))

NextExecuteTool ==
  \/ ExecuteTool
  \/ NeedsApprovalReturns
  \/ NeedsApprovalThrows
  \/ RunnerToolReturns
  \/ RunnerToolThrows

SpecExecuteTool == InitExecuteTool /\ [][NextExecuteTool]_vars

\* ------------------------------------------------------------------ createCircuitBreakerAgent
\* One wrapper made by createCircuitBreakerAgent(config, options); agents[1] is its
\* options.  Its run and reset methods are called one after the other: a call is made
\* when the one before has settled.  Time passes at any moment, also while a run of
\* the primary or the fallback agent is awaited.  calls records each call: for a run
\* call the time it was made at (now), isOpen as the call found it, which agent it
\* started, how it settled and at what time.
options == agents[1]

InitBreaker ==
  /\ agents \in {<<[failureThreshold |-> ft, resetTimeout |-> rt, fallbackAgent |-> fb]>> :
                    ft \in 1..MaxThreshold, rt \in 1..MaxResetTimeout, fb \in BOOLEAN}
  /\ breaker = NewBreaker
  /\ clock = 0
  /\ toolHeap = <<>>
  /\ inp = <<>>
  /\ pc = "idle"
  /\ i = 0
  /\ heap = <<>>
  /\ history = 0
  /\ lastContent = <<>>
  /\ calls = <<>>
  /\ trace = <<>>
  /\ result = NoResult
  /\ self = 1
  /\ observer = Recorder
  /\ parked = <<>>
  /\ stream = <<>>
  /\ full = <<>>

\* time passes
Tick ==
  /\ clock < MaxClock
  /\ clock' = clock + 1
  /\ UNCHANGED <<agents, toolHeap, inp, pc, i, heap, history, lastContent, calls, trace, result,
                 self, observer, parked, stream, full, breaker>>

BreakerCall(started, outcome, error) ==
  [fn |-> "run", now |-> clock, isOpen |-> breaker.isOpen, started |-> started,
   outcome |-> outcome, error |-> error, settledAt |-> clock]

\* lines 142-146: the circuit resets when it is open and now - lastFailureTime > resetTimeout
AfterResetCheck ==
  IF breaker.isOpen /\ (clock - breaker.lastFailureTime) > options.resetTimeout
    THEN [breaker EXCEPT !.isOpen = FALSE, !.failureCount = 0]
    ELSE breaker

\* run(input, runConfig) of the wrapper: lines 139-157, up to the await or the throw
BreakerRun ==
  /\ pc = "idle"
  /\ Len(calls) < MaxBreakerCalls
  /\ breaker' = AfterResetCheck
  /\ IF AfterResetCheck.isOpen
       THEN IF options.fallbackAgent
              THEN /\ pc' = "fallback"
                   /\ calls' = Append(calls, BreakerCall("fallback", "pending", ""))
              ELSE /\ pc' = "idle"
                   /\ calls' = Append(calls, BreakerCall("none", "threw", "Circuit breaker is open - too many failures"))
       ELSE /\ pc' = "primary"
            /\ calls' = Append(calls, BreakerCall("primary", "pending", ""))
  /\ UNCHANGED <<agents, toolHeap, inp, i, heap, history, lastContent, trace, result,
                 self, observer, parked, stream, full, clock>>

\* lines 156-160: the primary run succeeded
PrimaryReturns ==
  /\ pc = "primary"
  /\ pc' = "idle"
  /\ breaker' = [breaker EXCEPT !.failureCount = 0]
  /\ calls' = [calls EXCEPT ![Len(calls)] = [@ EXCEPT !.outcome = "returned", !.settledAt = clock]]
  /\ UNCHANGED <<agents, toolHeap, inp, i, heap, history, lastContent, trace, result,
                 self, observer, parked, stream, full, clock>>

\* lines 161-170: the primary run failed; now is the time the call was made at (line 140)
PrimaryThrows ==
  /\ pc = "primary"
  /\ pc' = "idle"
  /\ breaker' = [breaker EXCEPT
                   !.failureCount = @ + 1,
                   !.lastFailureTime = calls[Len(calls)].now,
                   !.isOpen = IF breaker.failureCount + 1 >= options.failureThreshold THEN TRUE ELSE @]
  /\ calls' = [calls EXCEPT ![Len(calls)] = [@ EXCEPT !.outcome = "threw", !.error = "primary",
                                                       !.settledAt = clock]]
  /\ UNCHANGED <<agents, toolHeap, inp, i, heap, history, lastContent, trace, result,
                 self, observer, parked, stream, full, clock>>

\* line 151: the run of the fallback agent settles; the wrapper returns its promise
FallbackSettles ==
  /\ pc = "fallback"
  /\ pc' = "idle"
  /\ \E outcome \in {"returned", "threw"} :
       calls' = [calls EXCEPT ![Len(calls)] = [@ EXCEPT !.outcome = outcome, !.settledAt = clock,
                                                        !.error = IF outcome = "threw" THEN "fallback" ELSE ""]]
  /\ UNCHANGED <<agents, toolHeap, inp, i, heap, history, lastContent, trace, result,
                 self, observer, parked, stream, full, breaker, clock>>

\* reset(): lines 177-181
BreakerReset ==
  /\ pc = "idle"
  /\ Len(calls) < MaxBreakerCalls
  /\ breaker' = NewBreaker
  /\ calls' = Append(calls, [BreakerCall("none", "returned", "") EXCEPT !.fn = "reset"])
  /\ UNCHANGED <<agents, toolHeap, inp, pc, i, heap, history, lastContent, trace, result,
                 self, observer, parked, stream, full, clock>>

NextBreaker ==
  \/ Tick
  \/ BreakerRun
  \/ PrimaryReturns
  \/ PrimaryThrows
  \/ FallbackSettles
  \/ BreakerReset

SpecBreaker == InitBreaker /\ [][NextBreaker]_vars

\* ------------------------------------------------------------------ properties
IsChat(c) == c.fn = "chat"
ChatCalls == SelectSeq(calls, IsChat)
CallsTo(fn) == {k \in 1..Len(calls) : calls[k].fn = fn}

ConfiguredTools == ToolsOf(baseConfig).list
HasHint == Len(ConfiguredTools) > 0
HasInstructions == baseConfig.instructions \notin {Absent, ""}
InstructionsMessages == IF HasInstructions THEN <<Message("system", <<baseConfig.instructions>>)>> ELSE <<>>
HintMessages == IF HasHint THEN <<Message("system", HintText(ConfiguredTools))>> ELSE <<>>

\* the messages inputGuard resolved to, or the caller's when there is no inputGuard
GuardedInput == IF baseConfig.inputGuard THEN heap[calls[1].ret] ELSE heap[inp.messages]

Range(list) == {list[k] : k \in 1..Len(list)}

IsPrefix(p, q) == Len(p) <= Len(q) /\ SubSeq(q, 1, Len(p)) = p

\* list is: the synthesized messages lead, then the guarded input, then assistant and
\* tool messages only, and no synthesized message occurs again
StartsWith(list, lead) ==
  /\ IsPrefix(lead \o GuardedInput, list)
  /\ \A k \in (Len(lead) + 1)..Len(list) :
       list[k] \notin {Message("system", <<baseConfig.instructions>>),
                      Message("system", HintText(ConfiguredTools))}
  /\ \A k \in (Len(lead) + Len(GuardedInput) + 1)..Len(list) : list[k].role \in {"assistant", "tool"}

\* a text that is a tool-call directive for a configured tool and carries no handoff key
IsConfiguredToolCall(text) ==
  LET whole == JSONParse(text)
  IN /\ whole.ok
     /\ whole.val.kind = "object"
     /\ {"tool", "args"} \subseteq whole.val.has
     /\ "handoff" \notin whole.val.has
     /\ \E k \in 1..Len(ConfiguredTools) : ConfiguredTools[k].name = whole.val.tool

\* the slice from the first "{" to the last "}" that follows it (empty when there is none)
BraceSlice(text) ==
  IF IndexOf(text, "{") # -1 /\ LastIndexOf(text, "}") > IndexOf(text, "{")
    THEN SubSeq(text, IndexOf(text, "{") + 1, LastIndexOf(text, "}") + 1)
    ELSE <<>>

\* the text is JSON for an object, or it is not JSON and its brace slice is JSON for an object
ParsesToObject(text) ==
  \/ JSONParse(text).ok /\ JSONParse(text).val.kind = "object"
  \/ ~JSONParse(text).ok /\ JSONParse(BraceSlice(text)).ok

\* the object such a text parses to
ObjectOf(text) == IF JSONParse(text).ok THEN JSONParse(text).val ELSE JSONParse(BraceSlice(text)).val

\* C1: for maxToolPasses = k >= 0 (default 3) a run makes at most max(1, k + 1) calls
\* of client.chat, whatever the provider answers.
C1_BoundedProviderCalls ==
  Passes >= 0 => Len(ChatCalls) <= (IF Passes + 1 > 1 THEN Passes + 1 ELSE 1)

\* the default bound is met by a run whose every response was a tool call that ran
C1_Witness ==
  /\ ~inp.maxToolPasses.given
  /\ pc = "returned"
  /\ Len(ChatCalls) = 4
  /\ Cardinality(CallsTo("execute")) = 4

\* C2 (as stated): every list handed to client.chat is the instructions message, then
\* the tool-hint message, then the conversation.
C2_InstructionsThenHint ==
  \A k \in CallsTo("chat") : StartsWith(calls[k].snap, InstructionsMessages \o HintMessages)

\* C2 (amended): every list handed to client.chat is the tool-hint message (when tools
\* is non-empty), then the instructions message (when instructions is a non-empty
\* string), then the conversation; neither synthesized message occurs again.
C2_HintThenInstructions ==
  \A k \in CallsTo("chat") : StartsWith(calls[k].snap, HintMessages \o InstructionsMessages)

C2_Witness ==
  /\ HasHint
  /\ HasInstructions
  /\ baseConfig.inputGuard
  /\ Len(ChatCalls) = 3

\* C3: with maxToolPasses = 0, a configured tool and a first response that is a tool
\* call naming it, the run makes one provider call, never invokes execute, and returns
\* the raw tool-call text.
C3_NoToolAtZeroPasses ==
  ( /\ inp.maxToolPasses = [given |-> TRUE, value |-> 0]
    /\ Len(ChatCalls) >= 1
    /\ ChatCalls[1].outcome = "returned"
    /\ IsConfiguredToolCall(ChatCalls[1].ret) )
  => /\ Len(ChatCalls) = 1
     /\ CallsTo("execute") = {}
     /\ (pc = "returned" /\ ~baseConfig.outputGuard => result.content = ChatCalls[1].ret)

\* C4: when a handoff callback is configured and a response parses to an object with a
\* handoff key, the callback is called exactly once with (to, history, context), it is
\* the last external call of the run (no provider call, tool, outputGuard or
\* expect.parse follows), and the run returns the callback's content and structured.
C4_HandoffShortCircuits ==
  \A k \in CallsTo("chat") :
    ( /\ baseConfig.handoff
      /\ calls[k].outcome = "returned"
      /\ ParsesToObject(calls[k].ret)
      /\ "handoff" \in ObjectOf(calls[k].ret).has )
    => /\ Len(calls) = k + 1
       /\ CallsTo("handoff") = {k + 1}
       /\ calls[k + 1].name = ObjectOf(calls[k].ret).handoff
       /\ calls[k + 1].ref = history
       /\ calls[k + 1].snap = heap[history]
       /\ calls[k + 1].ctx = inp.context
       /\ pc \in {"handoff", "returned", "rejected"}
       /\ (pc = "handoff") = (calls[k + 1].outcome = "pending")
       /\ (pc = "rejected") = (calls[k + 1].outcome = "threw")
       /\ pc = "returned" => /\ result.content = calls[k + 1].ret.content
                             /\ result.structured = calls[k + 1].ret.structured

\* a handoff taken on the second turn of a run that has an outputGuard and an expect
C4_Witness ==
  /\ pc = "returned"
  /\ CallsTo("handoff") # {}
  /\ Len(ChatCalls) = 2
  /\ baseConfig.outputGuard
  /\ inp.expect
  /\ result.structured = EmptyObject

\* C5: turns are sequential: only the last external call can be pending, and a provider
\* call that is not the first comes right after a provider call that returned and the
\* tool call it led to, which returned; its list ends with the assistant message
\* holding that response and the tool message holding the stringified tool result.
C5_SequentialTurns ==
  /\ \A k \in 1..(Len(calls) - 1) : calls[k].outcome = "returned"
  /\ \A k \in CallsTo("chat") :
       (\E j \in CallsTo("chat") : j < k)
       => /\ k >= 3
          /\ calls[k - 2].fn = "chat"
          /\ calls[k - 1].fn = "execute"
          /\ Len(calls[k].snap) >= 2
          /\ SubSeq(calls[k].snap, Len(calls[k].snap) - 1, Len(calls[k].snap))
               = <<Message("assistant", calls[k - 2].ret),
                   Message("tool", Stringify(calls[k - 1].ret))>>

\* a third provider call that follows a tool which returned an object
C5_Witness ==
  /\ Len(ChatCalls) = 3
  /\ \E k \in CallsTo("execute") : calls[k].outcome = "returned" /\ calls[k].ret.type = "object"
  /\ \E k \in CallsTo("execute") : calls[k].outcome = "returned" /\ calls[k].ret.type = "string"

\* the conversation a provider call was given: its list without the tool hint
Conversation(c) == IF HasHint THEN Tail(c.snap) ELSE c.snap

\* C6: the history only grows: the conversation of a provider call is a proper prefix
\* of the conversation of the next one, and a list handed to the provider, to the
\* handoff callback or to inputGuard still holds what it held when it was handed over.
C6_HistoryOnlyGrows ==
  /\ \A j \in CallsTo("chat") : \A k \in CallsTo("chat") :
       j < k => /\ IsPrefix(Conversation(calls[j]), Conversation(calls[k]))
                /\ Len(Conversation(calls[j])) < Len(Conversation(calls[k]))
  /\ \A k \in 1..Len(calls) : calls[k].ref # 0 => heap[calls[k].ref] = calls[k].snap

\* a handoff on the third turn: three lists went to the provider, one to the callback
C6_Witness ==
  /\ Len(ChatCalls) = 3
  /\ CallsTo("handoff") # {}
  /\ pc = "returned"

C11_InstructionsPrecedeGuarded ==
  (HasInstructions /\ Len(ChatCalls) >= 1)
  => \E p \in 1..Len(ChatCalls[1].snap) :
       /\ ChatCalls[1].snap[p] = Message("system", <<baseConfig.instructions>>)
       /\ p <= 2
       /\ SubSeq(ChatCalls[1].snap, p + 1, Len(ChatCalls[1].snap)) = GuardedInput
       /\ \A q \in 1..(p - 1) : ChatCalls[1].snap[q] \notin Range(GuardedInput)

\* an inputGuard that kept the last message only, on an agent with tools
C11_Witness ==
  /\ HasInstructions
  /\ HasHint
  /\ baseConfig.inputGuard
  /\ Len(ChatCalls) >= 1
  /\ GuardedInput = <<Message("user", <<"1">>)>>
  /\ Len(ChatCalls[1].snap) = 3

EventsOf(type) == {k \in 1..Len(trace) : trace[k].type = type}

\* C12: when a tool's execute throws, the run rejects with that error: the throwing call
\* is the last external call (no provider call follows), no result is returned, no
\* tool:stop is emitted for that call and no agent:stop is emitted at all.
C12_ToolThrowAbortsRun ==
  \A k \in CallsTo("execute") :
    calls[k].outcome = "threw"
    => /\ pc = "rejected"
       /\ result = [NoResult EXCEPT !.status = "rejected", !.error = "execute"]
       /\ Len(calls) = k
       /\ EventsOf("agent:stop") = {}
       /\ baseConfig.onTrace =>
            /\ Cardinality(EventsOf("tool:start")) = Cardinality(CallsTo("execute"))
            /\ Cardinality(EventsOf("tool:stop")) = Cardinality(CallsTo("execute")) - 1
            /\ trace[Len(trace)].type = "tool:start"

\* the tool of the second turn throws, after the tool of the first turn returned
C12_Witness ==
  /\ baseConfig.onTrace
  /\ baseConfig.outputGuard
  /\ Cardinality(CallsTo("execute")) = 2
  /\ calls[Len(calls)].fn = "execute"
  /\ calls[Len(calls)].outcome = "threw"
  /\ Cardinality(EventsOf("tool:stop")) = 1
  /\ pc = "rejected"

\* C13: when client.chat rejects, on whichever turn, the run rejects with that error
\* and the rejected call is the last external call of the run: client.chat is not
\* called again, whatever maxToolPasses is.
C13_ProviderErrorNoRetry ==
  \A k \in CallsTo("chat") :
    calls[k].outcome = "threw"
    => /\ pc = "rejected"
       /\ result = [NoResult EXCEPT !.status = "rejected", !.error = "chat"]
       /\ Len(calls) = k

\* the provider fails on the third of the five turns that maxToolPasses = 3 would allow
C13_Witness ==
  /\ ~inp.maxToolPasses.given
  /\ Len(ChatCalls) = 3
  /\ ChatCalls[3].outcome = "threw"
  /\ pc = "rejected"

\* C14: when expect is supplied and expect.parse throws, the run rejects with that
\* error and returns no result; and a returned result carries a structured value only
\* when expect was supplied and expect.parse returned that value.
C14_StructuredOnlyFromExpect ==
  /\ \A k \in CallsTo("expect") :
       calls[k].outcome = "threw"
       => /\ pc = "rejected"
          /\ result = [NoResult EXCEPT !.status = "rejected", !.error = "expect"]
  /\ (pc = "returned" /\ result.structured # UndefinedValue)
       => /\ inp.expect
          /\ \E k \in CallsTo("expect") :
               calls[k].outcome = "returned" /\ calls[k].ret = result.structured

\* what a call handed over and what came back, without the identity of its list
Exchange(st, c) ==
  [fn |-> c.fn, messages |-> c.snap, text |-> c.text, name |-> c.name, obj |-> c.obj,
   ctx |-> c.ctx, outcome |-> c.outcome,
   ret |-> IF c.fn = "inputGuard" /\ c.outcome = "returned" THEN st.heap[c.ret] ELSE c.ret]

IsProviderOrTool(c) == c.fn \in {"chat", "execute"}

\* the provider calls and tool executions of a run, in order
ProviderAndToolCalls(st) ==
  LET own == SelectSeq(st.calls, IsProviderOrTool)
  IN [k \in 1..Len(own) |-> Exchange(st, own[k])]

\* C15: onTrace never affects the run: whatever the onTrace function does, the run
\* makes the provider calls and tool executions that the same run call makes without
\* onTrace when its external calls have the same outcomes, and when it has ended it has
\* ended as that run: with the same result or the same error.
C15_ObserverNeverAffectsRun ==
  LET without == RunAlone(NoObserver)
  IN /\ ProviderAndToolCalls(Cur) = ProviderAndToolCalls(without)
     /\ pc \in {"returned", "rejected"} => without.pc = pc /\ without.result = result

\* ---- properties of a run whose external calls all settle (SpecLive)
\* every allowed turn was a provider call that led to a tool call, and all have returned
Exhausted ==
  /\ Len(ChatCalls) = LoopBound
  /\ Cardinality(CallsTo("execute")) = LoopBound
  /\ \A k \in CallsTo("chat") \cup CallsTo("execute") : calls[k].outcome = "returned"

\* the run has ended; if rejected, with the error of an external call that threw; if
\* returned after the loop used up its iterations on tool calls, with the last provider
\* response as content (sent through outputGuard when there is one)
Terminated ==
  /\ pc \in {"returned", "rejected"}
  /\ pc = "rejected"
       => /\ calls # <<>>
          /\ calls[Len(calls)].outcome = "threw"
          /\ result.error = calls[Len(calls)].fn
  /\ (Exhausted /\ pc = "returned")
       => IF baseConfig.outputGuard
            THEN \E k \in CallsTo("outputGuard") :
                   /\ calls[k].text = ChatCalls[LoopBound].ret
                   /\ result.content = calls[k].ret
            ELSE result.content = ChatCalls[LoopBound].ret

\* C17: when every external call settles, a run ends, and it rejects only with the
\* error of an external call that threw: so when every call returns it returns, also
\* when every allowed turn ended in a tool call and the loop used up its iterations;
\* its content is then the last provider response.
C17_RunTerminates == <>Terminated

\* the default four turns all ended in a tool call, and the run returned the last response
C17_Witness ==
  /\ Exhausted
  /\ ~inp.maxToolPasses.given
  /\ Len(ChatCalls) = 4
  /\ pc = "returned"
  /\ ~baseConfig.outputGuard
  /\ result.content = SearchCall

\* ---- properties of openaiClient chat (SpecStream)
IsOnDelta(c) == c.fn = "onDelta"
IsChunk(c) == c.fn = "chunk"
CarriesDelta(c) == c.fn = "chunk" /\ c.content \notin {<<>>, Undefined}

RECURSIVE Concat(_)
Concat(list) == IF list = <<>> THEN <<>> ELSE Head(list).content \o Concat(Tail(list))

\* C18: with onDelta supplied, onDelta is called once for each chunk that carries a
\* non-empty delta, with that delta, in arrival order, and never for a chunk whose
\* delta is missing or empty; the content returned is the concatenation, in order, of
\* the strings passed to onDelta.
C18_StreamedContentIsDeltas ==
  inp.onDelta
  => /\ [k \in 1..Len(SelectSeq(calls, IsOnDelta)) |-> SelectSeq(calls, IsOnDelta)[k].content]
          = [k \in 1..Len(SelectSeq(calls, CarriesDelta)) |-> SelectSeq(calls, CarriesDelta)[k].content]
     /\ \A k \in 1..Len(calls) :
          calls[k].fn = "onDelta" => /\ calls[k].content # <<>>
                                     /\ calls[k - 1] = [fn |-> "chunk", content |-> calls[k].content]
     /\ pc = "returned" => /\ result.content = Concat(SelectSeq(calls, IsOnDelta))
                            /\ Len(SelectSeq(calls, IsChunk)) = Len(calls) - Len(SelectSeq(calls, IsOnDelta))

\* a stream of four chunks: a delta, an empty delta, a chunk without delta, a delta
C18_Witness ==
  /\ inp.onDelta
  /\ pc = "returned"
  /\ SelectSeq(calls, IsChunk)
       = <<[fn |-> "chunk", content |-> <<"w">>], [fn |-> "chunk", content |-> <<>>],
           [fn |-> "chunk", content |-> Undefined], [fn |-> "chunk", content |-> <<"1", "w">>]>>
  /\ Len(SelectSeq(calls, IsOnDelta)) = 2
  /\ result.content = <<"w", "1", "w">>

\* ---- properties of withTools (SpecBuilder)
BuilderTools(n) == IF agents[n].tools = 0 THEN <<>> ELSE toolHeap[agents[n].tools]

\* C19: withTools(A) yields a configuration whose tools are the tools of the one it was
\* given followed by A; so withTools(A) and then withTools(B) yield the original tools,
\* then A, then B, in that order and with every entry kept; the configuration handed
\* to withTools, and its tools array, stay as they were, and the result is a new one.
C19_WithToolsAccumulates ==
  \A k \in 1..Len(calls) :
    /\ BuilderTools(calls[k].made) = calls[k].before \o calls[k].tools
    /\ agents[calls[k].base] = calls[k].config
    /\ BuilderTools(calls[k].base) = calls[k].before
    /\ agents[calls[k].made].tools # calls[k].config.tools
    /\ [agents[calls[k].made] EXCEPT !.tools = 0] = [calls[k].config EXCEPT !.tools = 0]
    /\ \A j \in 1..(k - 1) :
         calls[k].base = calls[j].made
         => BuilderTools(calls[k].made) = calls[j].before \o calls[j].tools \o calls[k].tools

\* createAgent's configuration with tool1, then withTools([tool1, tool2]), then
\* withTools([tool2]) on the result: tool1 and tool2 both occur twice
C19_Witness ==
  /\ Len(calls) = 2
  /\ calls[1].base = 1
  /\ calls[1].before = <<Tool1>>
  /\ calls[1].tools = <<Tool1, Tool2>>
  /\ calls[2].base = 2
  /\ calls[2].tools = <<Tool2>>
  /\ BuilderTools(3) = <<Tool1, Tool1, Tool2, Tool2>>
  /\ BuilderTools(1) = <<Tool1>>

\* ---- properties of concurrent run calls (SpecConcurrent)
\* the loop state of a run call and everything it exchanged with its environment
LoopState(st) ==
  [pc |-> st.pc, i |-> st.i, lastContent |-> st.lastContent, result |-> st.result,
   history |-> IF st.history = 0 THEN <<>> ELSE st.heap[st.history],
   calls |-> [k \in 1..Len(st.calls) |-> Exchange(st, st.calls[k])],
   trace |-> [k \in 1..Len(st.trace) |-> [st.trace[k] EXCEPT !.ref = 0]]]

\* C16: concurrent run calls share no mutable loop state: however the two calls
\* interleave at their awaits, the executing call's history, its provider calls (and
\* every other external call, with the lists handed over), its result and its loop
\* variables are those of the same call executed alone with the same outcomes of its
\* external calls.  (The other call is the executing one after the next switch.)
C16_ConcurrentRunsIndependent == LoopState(Cur) = LoopState(RunAlone(Cur.onTrace))

\* two calls on the same agent, interleaved: the other call was started and awaits its
\* tool between the two provider calls of the executing call, which has returned
C16_Witness ==
  /\ pc = "returned"
  /\ Len(ChatCalls) = 2
  /\ parked[1].self = self
  /\ parked[1].pc = "execute"
  /\ \E k \in 1..Len(parked[1].calls) :
       /\ parked[1].calls[k].fn = "chat"
       /\ ChatCalls[1].ref < parked[1].calls[k].ref
       /\ parked[1].calls[k].ref < ChatCalls[2].ref

\* the text parses to an object that has a handoff key and is a call of a configured tool
IsHandoffAndToolCall(text) ==
  /\ Len(ConfiguredTools) > 0
  /\ ParsesToObject(text)
  /\ LET obj == ObjectOf(text)
     IN /\ {"handoff", "tool", "args"} \subseteq obj.has
        /\ \E k \in 1..Len(ConfiguredTools) : ConfiguredTools[k].name = obj.tool

\* C20: handoff is checked before tool dispatch on every turn: after a response that
\* parses to an object with a handoff key and with tool and args keys naming a
\* configured tool, no tool is executed and no provider call is made; the next call is
\* the handoff callback when there is one, and else the run finalizes.
C20_HandoffBeforeTool ==
  \A k \in CallsTo("chat") :
    (calls[k].outcome = "returned" /\ IsHandoffAndToolCall(calls[k].ret))
    => /\ \A m \in (k + 1)..Len(calls) : calls[m].fn \notin {"execute", "chat"}
       /\ baseConfig.handoff => Len(calls) = k + 1 /\ calls[k + 1].fn = "handoff"
       /\ ~baseConfig.handoff => \A m \in (k + 1)..Len(calls) : calls[m].fn \in {"outputGuard", "expect"}
       /\ baseConfig.onTrace
            => /\ Cardinality(EventsOf("handoff")) = 1
               /\ Cardinality(EventsOf("tool:start")) = Cardinality(CallsTo("execute"))
       /\ lastContent = calls[k].ret

\* on the second turn the response asks for a handoff and for the calculator at once
C20_Witness ==
  /\ Len(ChatCalls) = 2
  /\ ChatCalls[2].ret = HandoffAndCall
  /\ IsHandoffAndToolCall(HandoffAndCall)
  /\ Cardinality(CallsTo("execute")) = 1
  /\ baseConfig.handoff
  /\ pc = "returned"

\* ---- properties of agent.with (SpecWith)
\* the turn of the provider call calls[k] is the last one and the run finalizes with
\* the response text: what follows the call is outputGuard (given the text) when one
\* is configured, then expect.parse (given the guarded text and the object extracted
\* from it) when expect is supplied, then the return of the guarded text
FinalizesOn(k) ==
  /\ lastContent = calls[k].ret
  /\ \A m \in (k + 1)..Len(calls) : calls[m].fn \in {"outputGuard", "expect"}
  /\ Cardinality(CallsTo("outputGuard")) <= 1
  /\ Cardinality(CallsTo("expect")) <= 1
  /\ baseConfig.outputGuard
       => /\ Len(calls) > k
          /\ calls[k + 1].fn = "outputGuard"
          /\ calls[k + 1].text = calls[k].ret
          /\ (calls[k + 1].outcome = "returned" /\ inp.expect)
               => /\ Len(calls) = k + 2
                  /\ calls[k + 2].fn = "expect"
                  /\ calls[k + 2].text = calls[k + 1].ret
          /\ (calls[k + 1].outcome = "returned" /\ ~inp.expect)
               => pc = "returned" /\ result.content = calls[k + 1].ret
  /\ (~baseConfig.outputGuard /\ inp.expect)
       => Len(calls) = k + 1 /\ calls[k + 1].fn = "expect" /\ calls[k + 1].text = calls[k].ret
  /\ (~baseConfig.outputGuard /\ ~inp.expect)
       => pc = "returned" /\ result.content = calls[k].ret
  /\ (pc = "returned" /\ inp.expect)
       => /\ result.content = calls[Len(calls)].text
          /\ result.structured = calls[Len(calls)].obj
  /\ pc = "rejected" => result.error \in {"outputGuard", "expect"}

\* C21: when no handoff callback is configured and a response parses to an object with
\* a handoff key, the loop stops on that turn: a handoff event is emitted (after the
\* turn's llm:response, and nothing but agent:stop follows it), no tool is executed in
\* the turn, no provider call follows, and the run finalizes with the response text as
\* the last content, which goes through outputGuard and expect.
C21_HandoffWithoutCallbackFinalizes ==
  \A k \in CallsTo("chat") :
    ( /\ ~baseConfig.handoff
      /\ calls[k].outcome = "returned"
      /\ ParsesToObject(calls[k].ret)
      /\ "handoff" \in ObjectOf(calls[k].ret).has )
    => /\ FinalizesOn(k)
       /\ CallsTo("handoff") = {}
       /\ baseConfig.onTrace
            => /\ Cardinality(EventsOf("handoff")) = 1
               /\ \A e \in EventsOf("handoff") :
                    /\ e > 1
                    /\ trace[e - 1] = TraceEvent("llm:response", "", calls[k].ret, 0)
                    /\ trace[e].name = ObjectOf(calls[k].ret).handoff
                    /\ \A f \in (e + 1)..Len(trace) : trace[f].type = "agent:stop"
               /\ Cardinality(EventsOf("tool:start")) = Cardinality(CallsTo("execute"))

\* a response with handoff, tool and args keys on the second turn of an agent that has
\* the tool, an outputGuard that rewrote the text, and an expect
C21_Witness ==
  /\ ~baseConfig.handoff
  /\ baseConfig.onTrace
  /\ baseConfig.outputGuard
  /\ inp.expect
  /\ pc = "returned"
  /\ Len(ChatCalls) = 2
  /\ ChatCalls[2].ret = HandoffAndCall
  /\ HasHint
  /\ result.content = <<"{", "}">>
  /\ result.structured = EmptyObject
  /\ EventsOf("handoff") # {}

\* a text that parses to an object with tool and args keys and no handoff key, whose
\* tool is the name of no configured tool
IsUnknownToolCall(text) ==
  /\ ParsesToObject(text)
  /\ LET obj == ObjectOf(text)
     IN /\ {"tool", "args"} \subseteq obj.has
        /\ "handoff" \notin obj.has
        /\ \A n \in 1..Len(ConfiguredTools) : ConfiguredTools[n].name # obj.tool

\* C22: when a response is a tool-call directive (an object with tool and args keys;
\* one that also has a handoff key is a handoff) whose tool is the name of no
\* configured tool, nothing is thrown, no tool is executed and no tool:start or
\* tool:stop is emitted for it (the trace after the turn's llm:response holds nothing
\* but agent:stop), and the turn is final: the run finalizes with the directive text.
C22_UnknownToolIsFinal ==
  \A k \in CallsTo("chat") :
    (calls[k].outcome = "returned" /\ IsUnknownToolCall(calls[k].ret))
    => /\ FinalizesOn(k)
       /\ \A m \in CallsTo("execute") : m < k
       /\ baseConfig.onTrace
            => /\ Cardinality(EventsOf("tool:start")) = Cardinality(CallsTo("execute"))
               /\ Cardinality(EventsOf("tool:stop")) = Cardinality(CallsTo("execute"))
               /\ \E r \in EventsOf("llm:response") :
                    /\ trace[r].text = calls[k].ret
                    /\ \A f \in (r + 1)..Len(trace) : trace[f].type = "agent:stop"

\* a call of search on the second turn of an agent whose only tool is calculator,
\* which ran on the first turn
C22_Witness ==
  /\ ConfiguredTools = <<Calculator>>
  /\ baseConfig.onTrace
  /\ ~baseConfig.outputGuard
  /\ pc = "returned"
  /\ Len(ChatCalls) = 2
  /\ ChatCalls[2].ret = SearchCall
  /\ Cardinality(CallsTo("execute")) = 1
  /\ result.content = SearchCall

\* the number of provider calls made before external call k
TurnOf(k) == Cardinality({j \in CallsTo("chat") : j < k})

\* the messages history was seeded with (line 87)
SeedLen == Len(InstructionsMessages) + Len(GuardedInput)

\* C23: a turn in which a tool was executed is never treated as final, whatever execute
\* returned: the assistant message holding the response and the tool message holding
\* the stringified result are appended to history, and when passes remain the next
\* external call is the next provider call.
C23_ExecutedToolContinues ==
  \A k \in CallsTo("execute") :
    calls[k].outcome = "returned"
    => /\ Len(heap[history]) >= SeedLen + 2 * TurnOf(k)
       /\ SubSeq(heap[history], SeedLen + 2 * TurnOf(k) - 1, SeedLen + 2 * TurnOf(k))
            = <<Message("assistant", calls[k - 1].ret), Message("tool", Stringify(calls[k].ret))>>
       /\ TurnOf(k) < LoopBound => Len(calls) > k /\ calls[k + 1].fn = "chat"

\* C25: when inputGuard throws, the run rejects with that error before any provider
\* call (and before agent:start); when outputGuard throws, the run rejects with that
\* error, expect.parse is not called, agent:stop is not emitted and no result is
\* returned.  In both cases the throwing call is the last external call.
C25_GuardFailuresAbort ==
  /\ \A k \in CallsTo("inputGuard") :
       calls[k].outcome = "threw"
       => /\ pc = "rejected"
          /\ result = [NoResult EXCEPT !.status = "rejected", !.error = "inputGuard"]
          /\ Len(calls) = k
          /\ CallsTo("chat") = {}
          /\ trace = <<>>
  /\ \A k \in CallsTo("outputGuard") :
       calls[k].outcome = "threw"
       => /\ pc = "rejected"
          /\ result = [NoResult EXCEPT !.status = "rejected", !.error = "outputGuard"]
          /\ Len(calls) = k
          /\ CallsTo("expect") = {}
          /\ EventsOf("agent:stop") = {}

\* outputGuard throws after two turns of a run that was given an expect and whose
\* inputGuard returned
C25_Witness ==
  /\ baseConfig.inputGuard
  /\ baseConfig.onTrace
  /\ inp.expect
  /\ Len(ChatCalls) = 2
  /\ calls[Len(calls)].fn = "outputGuard"
  /\ calls[Len(calls)].outcome = "threw"
  /\ pc = "rejected"

\* C26: on a run that returned by finalizing (not through the handoff callback): a
\* configured inputGuard was called once, with the caller's messages, before the first
\* provider call; a configured outputGuard was called once, after the last provider
\* call, with the last response; the content returned is outputGuard's output (the
\* last response when there is no outputGuard); and when expect was supplied,
\* expect.parse was called once, last, with the object extracted from that content.
C26_GuardsAppliedOnce ==
  (pc = "returned" /\ CallsTo("handoff") = {})
  => LET lastChat == CHOOSE k \in CallsTo("chat") : \A j \in CallsTo("chat") : j <= k
         guards == CallsTo("outputGuard")
         content == IF baseConfig.outputGuard
                      THEN calls[CHOOSE o \in guards : TRUE].ret ELSE calls[lastChat].ret
     IN /\ CallsTo("chat") # {}
        /\ CallsTo("inputGuard") = (IF baseConfig.inputGuard THEN {1} ELSE {})
        /\ baseConfig.inputGuard => calls[1].ref = inp.messages
        /\ Cardinality(guards) = (IF baseConfig.outputGuard THEN 1 ELSE 0)
        /\ \A o \in guards : o > lastChat /\ calls[o].text = calls[lastChat].ret
        /\ result.content = content
        /\ CallsTo("expect") = (IF inp.expect THEN {Len(calls)} ELSE {})
        /\ inp.expect
             => /\ calls[Len(calls)].obj = tryParseObject(content)
                /\ calls[Len(calls)].text = content
                /\ result.structured = calls[Len(calls)].obj
        /\ ~inp.expect => result.structured = UndefinedValue

\* both guards and expect on a run of two turns: outputGuard turned prose into an
\* object, which is what expect.parse was given and what the run returned
C26_Witness ==
  /\ pc = "returned"
  /\ baseConfig.inputGuard
  /\ baseConfig.outputGuard
  /\ inp.expect
  /\ Len(ChatCalls) = 2
  /\ CallsTo("handoff") = {}
  /\ lastContent = Prose
  /\ result.content = <<"{", "}">>
  /\ result.structured = EmptyObject

\* the event types that may come right after an event of type t in the trace of a run
Successors(t) ==
  IF t = "agent:start" THEN {"llm:request"}
  ELSE IF t = "llm:request" THEN {"llm:response"}
  ELSE IF t = "llm:response" THEN {"handoff", "tool:start", "llm:request", "agent:stop"}
  ELSE IF t = "handoff" THEN {"llm:request", "agent:stop"}
  ELSE IF t = "tool:start" THEN {"tool:stop"}
  ELSE IF t = "tool:stop" THEN {"llm:request", "agent:stop"}
  ELSE {}

\* C27: the trace of a run that returned a result (with an onTrace configured) is
\* agent:start, then for each turn llm:request and llm:response, which handoff or
\* tool:start and tool:stop of one tool may follow, then agent:stop, once and last.
\* There are as many llm:request events as provider calls, and a tool:start is
\* followed at once by the tool:stop of the same tool.
C27_TraceGrammar ==
  (pc = "returned" /\ baseConfig.onTrace)
  => /\ Len(trace) >= 4
     /\ EventsOf("agent:start") = {1}
     /\ EventsOf("agent:stop") = {Len(trace)}
     /\ \A k \in 1..(Len(trace) - 1) : trace[k + 1].type \in Successors(trace[k].type)
     /\ \A k \in EventsOf("tool:start") : trace[k + 1].name = trace[k].name
     /\ Cardinality(EventsOf("llm:request")) = Len(ChatCalls)
     /\ Cardinality(EventsOf("llm:response")) = Len(ChatCalls)
     /\ Cardinality(EventsOf("tool:start")) = Cardinality(CallsTo("execute"))
     /\ Cardinality(EventsOf("handoff")) <= 1

\* three turns: calculator ran, search ran, then a handoff that the callback took
C27_Witness ==
  /\ pc = "returned"
  /\ baseConfig.onTrace
  /\ Len(ChatCalls) = 3
  /\ Cardinality(CallsTo("execute")) = 2
  /\ CallsTo("handoff") # {}
  /\ Len(trace) = 13
  /\ \E k \in EventsOf("tool:stop") : trace[k].name = "search"
  /\ \E k \in EventsOf("tool:stop") : trace[k].name = "calculator"

\* C28: the runner calls the provider at most maxTurns times; when the turn counter
\* has reached maxTurns as the loop ends it throws 'Maximum turns exceeded', also when
\* the last turn was final (a response without tool calls); so a run returns a result
\* only when it finished in fewer than maxTurns turns.
C28_MaxTurnsThrows ==
  /\ Cardinality(CallsTo("create")) = i
  /\ i <= maxTurns
  /\ pc = "returned" => i < maxTurns /\ result.turns = i
  /\ (pc = "rejected" /\ result.error = "Maximum turns exceeded") => i = maxTurns
  /\ \A k \in CallsTo("create") :
       ( /\ TurnOf(k) + 1 = maxTurns
         /\ calls[k].outcome = "returned"
         /\ calls[k].ret.choice )
       => \/ pc = "executeTools"
          \/ pc = "rejected" /\ result.error = "Maximum turns exceeded"

\* runConfig.maxTurns = 2, a first turn with a tool call, and a final response on the
\* second turn: the run rejects
C28_Witness ==
  /\ inp.maxTurns = 2
  /\ ~inp.streaming
  /\ i = 2
  /\ Len(calls) = 3
  /\ calls[3].outcome = "returned"
  /\ ~calls[3].ret.tool_calls.defined
  /\ heap[history][Len(heap[history])].role = "assistant"
  /\ pc = "rejected"
  /\ result.error = "Maximum turns exceeded"

\* the tool executeTool finds for the call in inp, 0 when there is none
FoundTool == Find(ToolsArgument, inp.toolCall.name)

\* approval is required: needsApproval is true, or it is a function that returned true
\* (the needsApproval call returned and no execute call followed it)
ApprovalRequired ==
  /\ FoundTool # 0
  /\ inp.toolCall.arguments = "valid"
  /\ \/ ToolsArgument[FoundTool].needsApproval = "true"
     \/ /\ ToolsArgument[FoundTool].needsApproval = "function"
        /\ Len(calls) = 1
        /\ calls[1].outcome = "returned"
        /\ pc = "returned"

\* C29: executeTool never throws.  It resolves to a ToolResult with the call's id;
\* success is true only when the tool was found, the arguments parsed and validated,
\* approval was not required and execute returned; an unknown tool, unparsable or
\* invalid arguments, a required approval and a throwing execute each give success =
\* false with an error; and when approval is required execute is not invoked.
C29_ExecuteToolNeverThrows ==
  /\ pc # "rejected"
  /\ (FoundTool = 0 \/ inp.toolCall.arguments # "valid") => pc \in {"idle", "returned"} /\ calls = <<>>
  /\ ApprovalRequired => CallsTo("execute") = {}
  /\ pc = "returned"
       => /\ result.toolResult.toolCallId = inp.toolCall.id
          /\ result.toolResult.success
               => /\ FoundTool # 0
                  /\ inp.toolCall.arguments = "valid"
                  /\ ~ApprovalRequired
                  /\ \E k \in CallsTo("execute") : calls[k].outcome = "returned"
                  /\ result.toolResult.error = ""
          /\ ( \/ FoundTool = 0
               \/ inp.toolCall.arguments # "valid"
               \/ ApprovalRequired
               \/ \E k \in 1..Len(calls) : calls[k].outcome = "threw" )
               => ~result.toolResult.success /\ result.toolResult.error # ""

\* the needsApproval function let the call through and execute threw
C29_Witness ==
  /\ pc = "returned"
  /\ Len(calls) = 2
  /\ calls[1].fn = "needsApproval"
  /\ calls[2].fn = "execute"
  /\ calls[2].outcome = "threw"
  /\ result.toolResult = ToolResult(inp.toolCall.id, <<"Error executing tool", "boom">>, FALSE, "boom")

\* call k is a run call whose primary run failed
FailedPrimary(k) == calls[k].fn = "run" /\ calls[k].started = "primary" /\ calls[k].outcome = "threw"

\* the failed primary runs at the end of calls with nothing else after them, back to
\* the latest of them that found the circuit open (and so reset it before it ran)
ConsecutiveFailures ==
  LET tail == {k \in 1..Len(calls) : \A m \in k..Len(calls) : FailedPrimary(m)}
      resets == {k \in tail : calls[k].isOpen}
  IN IF resets = {} THEN Cardinality(tail)
     ELSE Cardinality({k \in tail : \A r \in resets : k >= r})

\* the time at which the last primary run before call k failed
LastFailureBefore(k) ==
  LET failed == {j \in 1..(k - 1) : FailedPrimary(j)}
  IN calls[CHOOSE j \in failed : \A m \in failed : m <= j].settledAt

\* C30: for calls made one after the other on a circuit breaker wrapper: after
\* failureThreshold consecutive failed primary runs the circuit is open; a run call
\* made while the circuit is open and before resetTimeout has elapsed since the last
\* failure does not start the primary agent (it runs the fallback agent, or throws
\* 'Circuit breaker is open' when there is none); a successful primary run sets
\* failureCount to 0; and isOpen implies failureCount >= failureThreshold.
C30_CircuitBreaker ==
  /\ breaker.isOpen => breaker.failureCount >= options.failureThreshold
  /\ (pc = "idle" /\ ConsecutiveFailures >= options.failureThreshold) => breaker.isOpen
  /\ \A k \in 1..Len(calls) :
       /\ ( /\ calls[k].fn = "run"
            /\ calls[k].isOpen
            /\ calls[k].now - LastFailureBefore(k) < options.resetTimeout )
          => /\ calls[k].started # "primary"
             /\ options.fallbackAgent => calls[k].started = "fallback"
             /\ ~options.fallbackAgent
                  => /\ calls[k].started = "none"
                     /\ calls[k].outcome = "threw"
                     /\ calls[k].error = "Circuit breaker is open - too many failures"
       /\ ( /\ k = Len(calls)
            /\ calls[k].started = "primary"
            /\ calls[k].outcome = "returned" )
          => breaker.failureCount = 0

Names(list) == {list[k].name : k \in 1..Len(list)}
LastNamed(list, name) ==
  list[CHOOSE k \in 1..Len(list) : list[k].name = name /\ \A m \in (k + 1)..Len(list) : list[m].name # name]

\* C7: the tools of agent.with({tools: b}) on an agent with tools a hold exactly one
\* tool per distinct name of a and b, and for a name of b the (last) definition of b.
C7_MergedToolsLatestWins ==
  \A k \in 1..Len(calls) :
    LET a == calls[k].a.list
        b == calls[k].b.list
        merged == ToolsOf(agents[calls[k].made]).list
    IN /\ Names(merged) = Names(a) \cup Names(b)
       /\ Len(merged) = Cardinality(Names(a) \cup Names(b))
       /\ \A name \in Names(b) : \E x \in 1..Len(merged) : merged[x] = LastNamed(b, name)
       /\ \A name \in Names(a) \ Names(b) : \E x \in 1..Len(merged) : merged[x] = LastNamed(a, name)

\* b names a tool of a, and names another tool twice
C7_Witness ==
  \E k \in 1..Len(calls) :
    /\ calls[k].a.list = <<ToolDefinition("calculator", "a"), ToolDefinition("search", "a")>>
    /\ calls[k].b.list = <<ToolDefinition("search", "b"), ToolDefinition("search", "c")>>
    /\ ToolsOf(agents[calls[k].made]).list
         = <<ToolDefinition("calculator", "a"), ToolDefinition("search", "c")>>

\* C8: agent.with makes a new agent and leaves every agent made before, and every
\* tools array that existed before, as it was.
C8_WithNeverMutates ==
  [][ /\ Len(agents') = Len(agents) + 1
      /\ \A n \in 1..Len(agents) : agents'[n] = agents[n]
      /\ \A r \in 1..Len(toolHeap) : toolHeap'[r] = toolHeap[r]
      /\ agents'[Len(agents')].tools \notin 1..Len(toolHeap) ]_vars

\* two with calls, the first on an agent that has tools, with tools of the same names
C8_Witness ==
  /\ Len(agents) = 3
  /\ agents[1].tools = 1
  /\ Len(toolHeap[1]) = 2
  /\ calls[1].base = 1
  /\ calls[1].b.defined
  /\ Names(calls[1].b.list) \cap Names(toolHeap[1]) # {}
  /\ calls[2].base = 1
  /\ agents[3].name = "Helper"
  /\ agents[3].instructions = Absent

\* a tools argument that is undefined or an empty array
EmptyOrAbsent(tools) == ~tools.defined \/ tools.list = <<>>

\* C24: mergeTools(a, b) returns undefined only if a and b are both empty or absent;
\* when one of them holds a tool it returns a list that holds exactly one definition
\* for each distinct name of a and b.
C24_MergeToolsUndefinedOnlyIfNone ==
  \A k \in 1..Len(calls) :
    LET a == calls[k].a
        b == calls[k].b
        out == agents[calls[k].made].tools
    IN /\ out = 0 => EmptyOrAbsent(a) /\ EmptyOrAbsent(b)
       /\ ~(EmptyOrAbsent(a) /\ EmptyOrAbsent(b))
            => /\ out # 0
               /\ Names(toolHeap[out]) = Names(a.list) \cup Names(b.list)
               /\ \A x \in 1..Len(toolHeap[out]) : \A y \in 1..Len(toolHeap[out]) :
                    toolHeap[out][x].name = toolHeap[out][y].name => x = y

\* mergeTools returned undefined for an agent without tools and an extension without
\* tools, a list for an agent without tools and an extension with an empty array, and
\* a list of one tool for an extension that names the tool twice
C24_Witness ==
  /\ Len(calls) = 2
  /\ agents[1].tools = 0
  /\ calls[1].base = 1 /\ ~calls[1].b.defined /\ agents[2].tools = 0
  /\ calls[2].base = 2
  /\ calls[2].b.defined
  /\ Len(calls[2].b.list) = 2
  /\ agents[3].tools # 0
  /\ Len(toolHeap[agents[3].tools]) = 1

\* ---- properties of maybeExecuteTool called directly (SpecTool)
\* C9: with tools undefined or empty, maybeExecuteTool resolves to exactly content,
\* executes no tool and emits no trace event, whatever the content.
C9_NoToolsPassThrough ==
  (pc # "idle" /\ (baseConfig.tools = 0 \/ Len(toolHeap[baseConfig.tools]) = 0))
  => /\ pc = "returned"
     /\ result.status = "returned"
     /\ result.content = lastContent
     /\ calls = <<>>
     /\ trace = <<>>

\* a well-formed tool call handed over with an empty tools list and an observer
C9_Witness ==
  /\ pc = "returned"
  /\ baseConfig.tools = 1
  /\ toolHeap[1] = <<>>
  /\ baseConfig.onTrace
  /\ lastContent = SearchCall
  /\ result.content = SearchCall

====
